---- MODULE Spec2Model ----
(***************************************************************************)
(* Model of the websocket gateway of poker-tower-defense:                  *)
(*   - Hub.Run, Hub.JoinRoom, Hub.LeaveRoom   (internal/ws/websocket.go)   *)
(*   - Hub.HandleWebSocket, Client.readPump, Client.writePump              *)
(*   - the card rules used by readPump         (internal/game/towers.go)   *)
(*   - main's shutdown sequence                                            *)
(*                                                                         *)
(* Go maps are functions whose DOMAIN is the key set; unbuffered channels  *)
(* are rendezvous between a blocked sender (its pc) and the hub's select;  *)
(* the buffered Send channel is a bounded sequence plus a closed flag.     *)
(* A connection id is the peer's remote address, unique per connection.    *)
(***************************************************************************)
EXTENDS Integers, Sequences, FiniteSets, TLC

\* ------------------------------------------------------------------------
\* Bounds of the model
\* ------------------------------------------------------------------------

\* capacity of a client's Send channel (256 in the source, scaled down)
SendCap == 1

\* inputs of the run: inbound frames read over all connections, plus calls of
\* JoinRoom and LeaveRoom that find their client registered
MaxEvents == 2

\* inputs of a run of the card round: inbound frames read over all connections
MaxRoundEvents == 3

\* connection ids (conn.RemoteAddr().String()), in the order they connect
\* the connections (Client objects): a1, a2, a3 come from three remote
\* addresses, b1 is a later connection from the remote address of a1
Conns == {"a1", "a2", "a3", "b1"}

\* Client.ID: conn.RemoteAddr().String(), the key of the client in Hub.Clients
\* and in the member map of its room
ClientID(c) == IF c = "b1" THEN "a1" ELSE c

ConnOrder == <<"a1", "a2", "a3">>

\* room ids; "" is the zero value meaning "no room"
RoomIds == {"r1", "r2"}

NoRoom == ""

RoomArgs == RoomIds \cup {NoRoom}

VARIABLES
    Clients,      \* Hub.Clients: the set of keys of the map (value = the client of that id)
    Rooms,        \* Hub.Rooms: function room id -> set of member ids, DOMAIN = existing rooms
    RoomID,       \* Client.RoomID per connection
    PlayerID,     \* Client.PlayerID per connection
    Send,         \* Client.Send: buffered messages per connection
    SendClosed,   \* whether close(client.Send) has been executed
    sock,         \* Client.Connection: "none", "open", "closed"
    pc,           \* position of HandleWebSocket / readPump per connection
    wpc,          \* position of writePump per connection
    pending,      \* the message a blocked readPump is sending on Hub.Broadcast
    hubPc,        \* position of Hub.Run
    hubMsg,       \* the message being fanned out
    hubTodo,      \* members of the ranged-over map not yet visited
    hubVictim,    \* the client being evicted
    hubIterLive,  \* the map object ranged over is still the one in Hub.Rooms
    mainPc,       \* position of main: "serving", "cancelled", "exited"
    atCancel,     \* history: the keys of Hub.Clients when cancel() was called
    DrawCount,    \* Client.DrawCount per connection
    CurrentHand,  \* Client.CurrentHand per connection
    CurrentDeck,  \* Client.CurrentDeck per connection
    WaveLevel,    \* Client.WaveLevel per connection
    trail,        \* history: the last two frames of the card round a readPump handled
    panicked,     \* a goroutine panicked (send on / close of a closed channel)
    nEvents,      \* number of inputs so far (bounded by MaxEvents)
    arrived,      \* history: the numbered frames ever put into each Send queue, in queue order
    rule,         \* the last call of a function of the game rules: name, arguments, result
    obs           \* history of the hub's current or last operation (observation only)

regVars == <<Clients, Rooms>>

chanVars == <<Send, SendClosed>>

idVars == <<RoomID, PlayerID>>

pumpVars == <<sock, pc, wpc, pending>>

iterVars == <<hubMsg, hubTodo, hubVictim, hubIterLive>>

mainVars == <<mainPc, atCancel>>

stateVars == <<DrawCount, CurrentHand, CurrentDeck, WaveLevel>>

roundVars == <<DrawCount, CurrentHand, CurrentDeck, WaveLevel, trail>>

vars == <<Clients, Rooms, RoomID, PlayerID, Send, SendClosed, sock, pc, wpc, pending,
          hubPc, hubMsg, hubTodo, hubVictim, hubIterLive, mainPc, atCancel,
          DrawCount, CurrentHand, CurrentDeck, WaveLevel, trail, panicked, nEvents,
          arrived, rule, obs>>

\* ------------------------------------------------------------------------
\* Helpers for Go maps
\* ------------------------------------------------------------------------

\* a payload without fields (a nil json.RawMessage, or "{}")
EmptyPayload == [k \in {} |-> TRUE]

NoMsg == [type |-> "", payload |-> EmptyPayload, roomId |-> "", senderId |-> ""]

\* no frame of the card round handled since the last frame of another kind
NoFrame == [prev |-> "", prevDc |-> 0, last |-> "", dcBefore |-> 0, dcAfter |-> 0,
            emit |-> NoMsg]

NoObs == [op |-> "none"]

\* delete(m, k)
\* the clients of the set S stored under the key of client c (at most one)
SameKey(S, c) == {d \in S : ClientID(d) = ClientID(c)}

MapDelete(m, k) == [x \in (DOMAIN m) \ {k} |-> m[x]]

\* m[k] = v
MapPut(m, k, v) == [x \in (DOMAIN m) \cup {k} |-> IF x = k THEN v ELSE m[x]]

\* h.Rooms[room][id] = client, creating the room when it is missing
RoomAdd(rooms, room, id) ==
    IF room \in DOMAIN rooms
    THEN MapPut(rooms, room, (rooms[room] \ SameKey(rooms[room], id)) \cup {id})
    ELSE MapPut(rooms, room, {id})

\* mutant: the member is deleted but a room left empty stays in the index
RoomRemove_KeepsEmpty(rooms, room, id) ==
    IF room \in DOMAIN rooms
    THEN MapPut(rooms, room, rooms[room] \ SameKey(rooms[room], id))
    ELSE rooms

\* delete(h.Rooms[room], id); if len(h.Rooms[room]) == 0 { delete(h.Rooms, room) }
\* guarded by h.Rooms[room] != nil
RoomRemove(rooms, room, id) ==
    IF room \in DOMAIN rooms
    THEN IF rooms[room] \ SameKey(rooms[room], id) = {}
         THEN MapDelete(rooms, room)
         ELSE MapPut(rooms, room, rooms[room] \ SameKey(rooms[room], id))
    ELSE rooms

\* no function of the game rules has been called
NoRule == [fn |-> "", in |-> EmptyPayload, out |-> EmptyPayload]

\* the mutex of the hub is free (no reader, no writer)
MutexFree == hubPc \in {"select", "stopped", "evict_lock", "evict_rlock"}

\* the process is alive
Running == mainPc # "exited" /\ ~panicked

\* ctx.Done() is closed
CtxDone == mainPc # "serving"

\* ------------------------------------------------------------------------
\* Init: NewHub, no connection yet
\* ------------------------------------------------------------------------

Init ==
    /\ Clients = {}
    /\ Rooms = << >>
    /\ RoomID = [c \in Conns |-> NoRoom]
    /\ PlayerID = [c \in Conns |-> ""]
    /\ Send = [c \in Conns |-> << >>]
    /\ SendClosed = [c \in Conns |-> FALSE]
    /\ sock = [c \in Conns |-> "none"]
    /\ pc = [c \in Conns |-> "idle"]
    /\ wpc = [c \in Conns |-> "idle"]
    /\ pending = [c \in Conns |-> NoMsg]
    /\ hubPc = "select"
    /\ hubMsg = NoMsg
    /\ hubTodo = {}
    /\ hubVictim = ""
    /\ hubIterLive = FALSE
    /\ mainPc = "serving"
    /\ atCancel = {}
    /\ DrawCount = [c \in Conns |-> 0]
    /\ CurrentHand = [c \in Conns |-> << >>]
    /\ CurrentDeck = [c \in Conns |-> << >>]
    /\ WaveLevel = [c \in Conns |-> 0]
    /\ trail = [c \in Conns |-> NoFrame]
    /\ panicked = FALSE
    /\ nEvents = 0
    /\ arrived = [c \in Conns |-> << >>]
    /\ rule = NoRule
    /\ obs = NoObs

\* ------------------------------------------------------------------------
\* Messages
\* ------------------------------------------------------------------------

\* encodeMessage: json.Marshal of a Message; roomId and senderId are omitempty
encodeMessage(m) ==
    [k \in {"type", "payload"}
           \cup (IF m.roomId # "" THEN {"roomId"} ELSE {})
           \cup (IF m.senderId # "" THEN {"senderId"} ELSE {}) |-> m[k]]

\* mutant: the frame is passed on as it was read
FillDefaults_Keeps(c, m) == m

\* readPump fills the sender id and the room id a frame left out
FillDefaults(c, m) ==
    [m EXCEPT !.senderId = IF m.senderId = "" THEN PlayerID[c] ELSE m.senderId,
              !.roomId = IF m.roomId = "" THEN RoomID[c] ELSE m.roomId]

\* the history stops being that of an undisturbed fan-out
Disturbed == IF obs.op = "broadcast" THEN [obs EXCEPT !.quiet = FALSE] ELSE obs

\* ------------------------------------------------------------------------
\* Connection set-up and the socket
\* ------------------------------------------------------------------------

\* connections from different remote addresses are accepted in the order of
\* ConnOrder; a remote address can connect again once the server has closed
\* the socket of its earlier connection
MayConnect(c) ==
    \/ \E i \in 1..Len(ConnOrder) :
           /\ ConnOrder[i] = c
           /\ \A j \in 1..(i - 1) : pc[ConnOrder[j]] # "idle"
    \/ \E d \in Conns \ {c} :
           /\ ClientID(d) = ClientID(c)
           /\ \A i \in 1..Len(ConnOrder) : ConnOrder[i] # c
           /\ sock[d] = "closed"

\* Hub.HandleWebSocket up to "h.Register <- client", where it blocks
HandleWebSocket(c, p, r) ==
    /\ Running
    /\ pc[c] = "idle"
    /\ MayConnect(c)
    /\ PlayerID' = [PlayerID EXCEPT ![c] = p]
    /\ RoomID' = [RoomID EXCEPT ![c] = r]
    /\ Send' = [Send EXCEPT ![c] = << >>]
    /\ sock' = [sock EXCEPT ![c] = "open"]
    /\ pc' = [pc EXCEPT ![c] = "register"]
    /\ UNCHANGED <<regVars, SendClosed, wpc, pending, hubPc, iterVars, mainVars,
                   roundVars, nEvents, arrived, panicked, obs>>
    /\ UNCHANGED rule

\* readPump: ReadMessage returns an error (the peer went away, or the
\* connection was closed by writePump); the loop breaks and the deferred
\* function blocks on "c.Hub.Unregister <- c"
ReadError(c) ==
    /\ Running
    /\ pc[c] = "read"
    /\ pc' = [pc EXCEPT ![c] = "unregister"]
    /\ UNCHANGED <<regVars, chanVars, idVars, sock, wpc, pending, hubPc, iterVars,
                   mainVars, roundVars, nEvents, arrived, panicked, obs>>
    /\ UNCHANGED rule

\* readPump's deferred function after the hub took the unregister request:
\* c.Connection.Close()
ReadPumpClose(c) ==
    /\ Running
    /\ pc[c] = "close"
    /\ pc' = [pc EXCEPT ![c] = "done"]
    /\ sock' = [sock EXCEPT ![c] = "closed"]
    /\ UNCHANGED <<regVars, chanVars, idVars, wpc, pending, hubPc, iterVars,
                   mainVars, roundVars, nEvents, arrived, panicked, obs>>
    /\ UNCHANGED rule

\* mutant: a failed write returns and leaves the connection open
WritePumpWrite_KeepsOpen(c, ok) ==
    /\ Running
    /\ wpc[c] = "recv"
    /\ Send[c] # << >>
    /\ ok => sock[c] = "open"
    /\ Send' = [Send EXCEPT ![c] = Tail(Send[c])]
    /\ IF ok
       THEN UNCHANGED <<wpc, sock>>
       ELSE /\ wpc' = [wpc EXCEPT ![c] = "done"]
            /\ UNCHANGED sock
    /\ obs' = Disturbed
    /\ UNCHANGED <<regVars, SendClosed, idVars, pc, pending, hubPc, iterVars,
                   mainVars, roundVars, nEvents, arrived, panicked>>
    /\ UNCHANGED rule

\* writePump: a message is received from c.Send and written to the socket;
\* a failed write (always, once the connection is closed) returns, and the
\* deferred function closes the connection
WritePumpWrite(c, ok) ==
    /\ Running
    /\ wpc[c] = "recv"
    /\ Send[c] # << >>
    /\ ok => sock[c] = "open"
    /\ Send' = [Send EXCEPT ![c] = Tail(Send[c])]
    /\ IF ok
       THEN UNCHANGED <<wpc, sock>>
       ELSE /\ wpc' = [wpc EXCEPT ![c] = "done"]
            /\ sock' = [sock EXCEPT ![c] = "closed"]
    /\ obs' = Disturbed
    /\ UNCHANGED <<regVars, SendClosed, idVars, pc, pending, hubPc, iterVars,
                   mainVars, roundVars, nEvents, arrived, panicked>>
    /\ UNCHANGED rule

\* writePump: c.Send is closed and drained; a close frame is written, the
\* function returns and the deferred function closes the connection
WritePumpClosed(c) ==
    /\ Running
    /\ wpc[c] = "recv"
    /\ Send[c] = << >>
    /\ SendClosed[c]
    /\ wpc' = [wpc EXCEPT ![c] = "done"]
    /\ sock' = [sock EXCEPT ![c] = "closed"]
    /\ UNCHANGED <<regVars, chanVars, idVars, pc, pending, hubPc, iterVars,
                   mainVars, roundVars, nEvents, arrived, panicked, obs>>
    /\ UNCHANGED rule

\* ------------------------------------------------------------------------
\* Hub.Run
\* ------------------------------------------------------------------------

\* what a range over a room's member map still has to visit after the maps
\* changed to rooms: entries deleted from the map are not produced; an entry
\* added during the iteration may be produced or skipped (takeNew); once the
\* room is deleted from Hub.Rooms the ranged-over map is empty and detached
IteratingRoom == hubPc \in {"fanout", "evict_lock", "evict_rlock"} /\ hubMsg.roomId # ""

IterLiveAfter(rooms) ==
    IF IteratingRoom /\ hubIterLive THEN hubMsg.roomId \in DOMAIN rooms ELSE hubIterLive

TodoAfter(rooms, added, takeNew) ==
    IF IteratingRoom /\ hubIterLive
    THEN IF hubMsg.roomId \in DOMAIN rooms
         THEN (hubTodo \cap rooms[hubMsg.roomId])
              \cup (IF takeNew THEN added \cap rooms[hubMsg.roomId] ELSE {})
         ELSE {}
    ELSE hubTodo

\* mutant: the client is stored in the connection map and in no room
HubRegister_MapOnly(c) ==
    /\ Running
    /\ hubPc = "select"
    /\ pc[c] = "register"
    /\ Clients' = (Clients \ SameKey(Clients, c)) \cup {c}
    /\ pc' = [pc EXCEPT ![c] = "read"]
    /\ wpc' = [wpc EXCEPT ![c] = "recv"]
    /\ obs' = NoObs
    /\ UNCHANGED <<Rooms, idVars, chanVars, sock, pending, hubPc, iterVars, mainVars,
                   roundVars, nEvents, arrived, panicked>>
    /\ UNCHANGED rule

\* case client := <-h.Register
HubRegister(c) ==
    /\ Running
    /\ hubPc = "select"
    /\ pc[c] = "register"
    /\ Clients' = (Clients \ SameKey(Clients, c)) \cup {c}
    /\ Rooms' = IF RoomID[c] # "" THEN RoomAdd(Rooms, RoomID[c], c) ELSE Rooms
    /\ pc' = [pc EXCEPT ![c] = "read"]
    /\ wpc' = [wpc EXCEPT ![c] = "recv"]
    /\ obs' = NoObs
    /\ UNCHANGED <<idVars, chanVars, sock, pending, hubPc, iterVars, mainVars,
                   roundVars, nEvents, arrived, panicked>>
    /\ UNCHANGED rule

\* mutant: the request is carried out without looking the client up
HubUnregister_NoCheck(c) ==
    /\ Running
    /\ hubPc = "select"
    /\ pc[c] = "unregister"
    /\ pc' = [pc EXCEPT ![c] = "close"]
    /\ obs' = [op |-> "unregister", known |-> SameKey(Clients, c) # {}]
    /\ Clients' = Clients \ SameKey(Clients, c)
    /\ IF SendClosed[c]
       THEN panicked' = TRUE /\ UNCHANGED <<SendClosed, Rooms>>
       ELSE /\ SendClosed' = [SendClosed EXCEPT ![c] = TRUE]
            /\ Rooms' = IF RoomID[c] # ""
                        THEN RoomRemove(Rooms, RoomID[c], c)
                        ELSE Rooms
            /\ UNCHANGED panicked
    /\ UNCHANGED <<idVars, Send, sock, wpc, pending, hubPc, iterVars, mainVars,
                   roundVars, nEvents, arrived>>
    /\ UNCHANGED rule

\* case client := <-h.Unregister
HubUnregister(c) ==
    /\ Running
    /\ hubPc = "select"
    /\ pc[c] = "unregister"
    /\ pc' = [pc EXCEPT ![c] = "close"]
    /\ obs' = [op |-> "unregister", known |-> SameKey(Clients, c) # {}]
    /\ IF SameKey(Clients, c) # {}
       THEN /\ Clients' = Clients \ SameKey(Clients, c)
            /\ IF SendClosed[c]
               THEN panicked' = TRUE /\ UNCHANGED <<SendClosed, Rooms>>
               ELSE /\ SendClosed' = [SendClosed EXCEPT ![c] = TRUE]
                    /\ Rooms' = IF RoomID[c] # ""
                                THEN RoomRemove(Rooms, RoomID[c], c)
                                ELSE Rooms
                    /\ UNCHANGED panicked
       ELSE UNCHANGED <<Clients, SendClosed, Rooms, panicked>>
    /\ UNCHANGED <<idVars, Send, sock, wpc, pending, hubPc, iterVars, mainVars,
                   roundVars, nEvents, arrived>>
    /\ UNCHANGED rule

\* mutant: every message goes to all clients
Targets_AllClients(m) == Clients

\* mutant: a message for a room that does not exist goes to all clients
Targets_FallbackAll(m) ==
    IF m.roomId # "" /\ m.roomId \in DOMAIN Rooms THEN Rooms[m.roomId] ELSE Clients

\* the targets of the fan-out of message m: the room's member map when the
\* message names a room that exists, all clients when it names none
Targets(m) ==
    IF m.roomId # ""
    THEN IF m.roomId \in DOMAIN Rooms THEN Rooms[m.roomId] ELSE {}
    ELSE Clients

\* case message := <-h.Broadcast: the hub takes the message of a blocked
\* readPump and starts to range over the room's members or over all clients
HubBroadcast(c) ==
    /\ Running
    /\ hubPc = "select"
    /\ pc[c] \in {"bcast", "bcast_wave"}
    /\ pc' = [pc EXCEPT ![c] = IF pc[c] = "bcast" THEN "read" ELSE "postwave"]
    /\ pending' = [pending EXCEPT ![c] = NoMsg]
    /\ hubMsg' = pending[c]
    /\ hubPc' = "fanout"
    /\ hubTodo' = Targets(pending[c])
    /\ hubIterLive' = (pending[c].roomId # "" /\ pending[c].roomId \in DOMAIN Rooms)
    /\ obs' = [op |-> "broadcast", msg |-> pending[c],
               targets |-> hubTodo', full |-> {t \in hubTodo' : Len(Send[t]) >= SendCap},
               start |-> [Clients |-> Clients, Rooms |-> Rooms, RoomID |-> RoomID,
                          Send |-> Send, SendClosed |-> SendClosed],
               delivered |-> {}, evicted |-> {}, quiet |-> TRUE]
    /\ UNCHANGED <<regVars, idVars, chanVars, sock, wpc, hubVictim, mainVars,
                   roundVars, nEvents, arrived, panicked>>
    /\ UNCHANGED rule

\* the number a frame carries in its type when its peer numbers its frames
SeqNo == "m1" :> 1 @@ "m2" :> 2 @@ "m3" :> 3 @@ "m4" :> 4

\* what the history of a queue records of message m: the sender id and the
\* number of a numbered frame, nothing of any other message
Numbered(m) ==
    IF m.type \in DOMAIN SeqNo THEN <<[from |-> m.senderId, seq |-> SeqNo[m.type]]>> ELSE << >>

\* mutant: the message is put at the head of the queue
FanoutStep_Front(c) ==
    /\ Running
    /\ hubPc = "fanout"
    /\ c \in hubTodo
    /\ hubTodo' = hubTodo \ {c}
    /\ IF SendClosed[c]
       THEN /\ panicked' = TRUE
            /\ UNCHANGED <<Send, SendClosed, hubPc, hubVictim, arrived, obs>>
       ELSE IF Len(Send[c]) < SendCap
       THEN /\ Send' = [Send EXCEPT ![c] = <<encodeMessage(hubMsg)>> \o Send[c]]
            /\ arrived' = [arrived EXCEPT ![c] = Numbered(hubMsg) \o @]
            /\ obs' = [obs EXCEPT !.delivered = obs.delivered \cup {c}]
            /\ UNCHANGED <<SendClosed, hubPc, hubVictim, panicked>>
       ELSE /\ SendClosed' = [SendClosed EXCEPT ![c] = TRUE]
            /\ hubVictim' = c
            /\ hubPc' = "evict_lock"
            /\ obs' = [obs EXCEPT !.evicted = obs.evicted \cup {c}]
            /\ UNCHANGED <<Send, arrived, panicked>>
    /\ UNCHANGED <<regVars, idVars, pumpVars, hubMsg, hubIterLive, mainVars,
                   roundVars, nEvents>>
    /\ UNCHANGED rule

\* mutant: the send has no default branch and waits for space in the queue
FanoutStep_Waits(c) ==
    /\ Running
    /\ hubPc = "fanout"
    /\ c \in hubTodo
    /\ SendClosed[c] \/ Len(Send[c]) < SendCap
    /\ hubTodo' = hubTodo \ {c}
    /\ IF SendClosed[c]
       THEN /\ panicked' = TRUE
            /\ UNCHANGED <<Send, arrived, obs>>
       ELSE /\ Send' = [Send EXCEPT ![c] = Append(Send[c], encodeMessage(hubMsg))]
            /\ arrived' = [arrived EXCEPT ![c] = @ \o Numbered(hubMsg)]
            /\ obs' = [obs EXCEPT !.delivered = obs.delivered \cup {c}]
            /\ UNCHANGED panicked
    /\ UNCHANGED <<regVars, idVars, pumpVars, SendClosed, hubPc, hubMsg, hubVictim,
                   hubIterLive, mainVars, roundVars, nEvents>>
    /\ UNCHANGED rule

\* one iteration of the range loop: select { case client.Send <- ...: default: }
\* the default branch closes the channel and releases the read lock
FanoutStep(c) ==
    /\ Running
    /\ hubPc = "fanout"
    /\ c \in hubTodo
    /\ hubTodo' = hubTodo \ {c}
    /\ IF SendClosed[c]
       THEN /\ panicked' = TRUE
            /\ UNCHANGED <<Send, SendClosed, hubPc, hubVictim, arrived, obs>>
       ELSE IF Len(Send[c]) < SendCap
       THEN /\ Send' = [Send EXCEPT ![c] = Append(Send[c], encodeMessage(hubMsg))]
            /\ arrived' = [arrived EXCEPT ![c] = @ \o Numbered(hubMsg)]
            /\ obs' = [obs EXCEPT !.delivered = obs.delivered \cup {c}]
            /\ UNCHANGED <<SendClosed, hubPc, hubVictim, panicked>>
       ELSE /\ SendClosed' = [SendClosed EXCEPT ![c] = TRUE]
            /\ hubVictim' = c
            /\ hubPc' = "evict_lock"
            /\ obs' = [obs EXCEPT !.evicted = obs.evicted \cup {c}]
            /\ UNCHANGED <<Send, arrived, panicked>>
    /\ UNCHANGED <<regVars, idVars, pumpVars, hubMsg, hubIterLive, mainVars,
                   roundVars, nEvents>>
    /\ UNCHANGED rule

\* mutant: the eviction deletes the victim's whole room
EvictRooms_DropsRoom(rooms, victim) ==
    IF RoomID[victim] \in DOMAIN rooms THEN MapDelete(rooms, RoomID[victim]) ELSE rooms

\* the room the eviction removes the victim from: h.Rooms[client.RoomID]; the
\* all-clients loop does it only when client.RoomID != ""
EvictRooms(rooms, victim) ==
    IF hubMsg.roomId # "" \/ RoomID[victim] # ""
    THEN RoomRemove(rooms, RoomID[victim], victim)
    ELSE rooms

\* the write-locked part of an eviction: delete(h.Clients, client.ID) and the
\* removal from the victim's room
EvictLock ==
    /\ Running
    /\ hubPc = "evict_lock"
    /\ Clients' = Clients \ SameKey(Clients, hubVictim)
    /\ Rooms' = EvictRooms(Rooms, hubVictim)
    /\ hubTodo' = TodoAfter(Rooms', {}, FALSE)
    /\ hubIterLive' = IterLiveAfter(Rooms')
    /\ hubPc' = "evict_rlock"
    /\ UNCHANGED <<idVars, chanVars, pumpVars, hubMsg, hubVictim, mainVars,
                   roundVars, nEvents, arrived, panicked, obs>>
    /\ UNCHANGED rule

\* h.Mutex.RLock() after an eviction: the range loop goes on
EvictRLock ==
    /\ Running
    /\ hubPc = "evict_rlock"
    /\ hubPc' = "fanout"
    /\ hubVictim' = ""
    /\ UNCHANGED <<regVars, idVars, chanVars, pumpVars, hubMsg, hubTodo, hubIterLive,
                   mainVars, roundVars, nEvents, arrived, panicked, obs>>
    /\ UNCHANGED rule

\* the range loop is over: h.Mutex.RUnlock() and back to the select
FanoutDone ==
    /\ Running
    /\ hubPc = "fanout"
    /\ hubTodo = {}
    /\ hubPc' = "select"
    /\ hubMsg' = NoMsg
    /\ hubIterLive' = FALSE
    /\ obs' = NoObs
    /\ UNCHANGED <<regVars, idVars, chanVars, pumpVars, hubTodo, hubVictim, mainVars,
                   roundVars, nEvents, arrived, panicked>>
    /\ UNCHANGED rule

\* the fan-out of the broadcast recorded in obs has visited every target
FanoutOver == hubPc = "fanout" /\ hubTodo = {} /\ obs.op = "broadcast"

\* case <-ctx.Done(): return
HubStop ==
    /\ Running
    /\ hubPc = "select"
    /\ CtxDone
    /\ hubPc' = "stopped"
    /\ obs' = NoObs
    /\ UNCHANGED <<regVars, idVars, chanVars, pumpVars, iterVars, mainVars,
                   roundVars, nEvents, arrived, panicked>>
    /\ UNCHANGED rule

\* ------------------------------------------------------------------------
\* Hub.JoinRoom, Hub.LeaveRoom (the caller's goroutine takes the write lock)
\* ------------------------------------------------------------------------

JoinRoom(c, r, takeNew) ==
    /\ Running
    /\ MutexFree
    /\ nEvents < MaxEvents
    /\ IF c \in Clients
       THEN /\ nEvents' = nEvents + 1
            /\ Rooms' = RoomAdd(IF RoomID[c] # "" /\ RoomID[c] # r
                                THEN RoomRemove(Rooms, RoomID[c], c)
                                ELSE Rooms, r, c)
            /\ RoomID' = [RoomID EXCEPT ![c] = r]
            /\ hubTodo' = TodoAfter(Rooms', IF r \in DOMAIN Rooms /\ c \in Rooms[r]
                                            THEN {} ELSE {c}, takeNew)
            /\ hubIterLive' = IterLiveAfter(Rooms')
            /\ obs' = Disturbed
       ELSE UNCHANGED <<Rooms, RoomID, hubTodo, hubIterLive, nEvents, obs>>
    /\ UNCHANGED <<Clients, PlayerID, chanVars, pumpVars, hubPc, hubMsg, hubVictim,
                   mainVars, roundVars, panicked, arrived>>
    /\ UNCHANGED rule

LeaveRoom(c, r) ==
    /\ Running
    /\ MutexFree
    /\ nEvents < MaxEvents
    /\ IF c \in Clients /\ RoomID[c] = r
       THEN /\ nEvents' = nEvents + 1
            /\ RoomID' = [RoomID EXCEPT ![c] = ""]
            /\ Rooms' = RoomRemove(Rooms, r, c)
            /\ hubTodo' = TodoAfter(Rooms', {}, FALSE)
            /\ hubIterLive' = IterLiveAfter(Rooms')
            /\ obs' = Disturbed
       ELSE UNCHANGED <<Rooms, RoomID, hubTodo, hubIterLive, nEvents, obs>>
    /\ UNCHANGED <<Clients, PlayerID, chanVars, pumpVars, hubPc, hubMsg, hubVictim,
                   mainVars, roundVars, panicked, arrived>>
    /\ UNCHANGED rule

\* ------------------------------------------------------------------------
\* main: shutdown
\* ------------------------------------------------------------------------

\* SIGINT/SIGTERM: cancel()
Cancel ==
    /\ Running
    /\ mainPc = "serving"
    /\ mainPc' = "cancelled"
    /\ atCancel' = Clients
    /\ UNCHANGED <<regVars, idVars, chanVars, pumpVars, hubPc, iterVars,
                   roundVars, nEvents, arrived, panicked, obs>>
    /\ UNCHANGED rule

\* <-ctx.Done(); server.Shutdown (which leaves hijacked connections alone);
\* main returns and the process ends with whatever the goroutines were doing
MainExit ==
    /\ Running
    /\ mainPc = "cancelled"
    /\ mainPc' = "exited"
    /\ UNCHANGED atCancel
    /\ UNCHANGED <<regVars, idVars, chanVars, pumpVars, hubPc, iterVars,
                   roundVars, nEvents, arrived, panicked, obs>>
    /\ UNCHANGED rule

\* ------------------------------------------------------------------------
\* readPump: message types without a handler of their own
\* ------------------------------------------------------------------------

\* a frame can be read: the connection is open
CanRead(c) ==
    /\ Running
    /\ pc[c] = "read"
    /\ sock[c] = "open"

\* the history after connection c handled a frame of the card round, of type t, that emitted
\* message m (NoMsg when it emitted nothing) and left its draw count at dc
Handled(c, t, m, dc) ==
    [trail EXCEPT ![c] = [prev |-> @.last, prevDc |-> @.dcBefore, last |-> t,
                          dcBefore |-> DrawCount[c], dcAfter |-> dc, emit |-> m]]

\* default: c.Hub.Broadcast <- &msg   (blocks until the hub takes it)
RecvOther(c, t, room, sender) ==
    /\ CanRead(c)
    /\ nEvents' = nEvents + 1
    /\ UNCHANGED arrived
    /\ pending' = [pending EXCEPT ![c] =
                      FillDefaults(c, [type |-> t, payload |-> [text |-> "x"],
                                       roomId |-> room, senderId |-> sender])]
    /\ pc' = [pc EXCEPT ![c] = "bcast"]
    /\ trail' = [trail EXCEPT ![c] = NoFrame]
    /\ UNCHANGED <<regVars, idVars, chanVars, sock, wpc, hubPc, iterVars, mainVars,
                   stateVars, panicked, obs>>
    /\ UNCHANGED rule

\* ------------------------------------------------------------------------
\* The card rules (internal/game)
\* ------------------------------------------------------------------------

suits == <<"hearts", "diamonds", "clubs", "spades">>

ranks == <<"2", "3", "4", "5", "6", "7", "8", "9", "10", "J", "Q", "K", "A">>

values ==
    "2" :> 2 @@ "3" :> 3 @@ "4" :> 4 @@ "5" :> 5 @@ "6" :> 6 @@ "7" :> 7 @@ "8" :> 8
    @@ "9" :> 9 @@ "10" :> 10 @@ "J" :> 11 @@ "Q" :> 12 @@ "K" :> 13 @@ "A" :> 14

\* NewDeck: for each suit, for each rank, one card
NewDeck ==
    [i \in 1..(Len(suits) * Len(ranks)) |->
        LET suit == suits[((i - 1) \div Len(ranks)) + 1]
            rank == ranks[((i - 1) % Len(ranks)) + 1]
        IN [ID |-> suit \o "-" \o rank, Suit |-> suit, Rank |-> rank,
            Value |-> values[rank], Held |-> FALSE, Active |-> TRUE]]

\* the random source of ShuffleDeck is seeded with the clock; here a source is
\* a linear congruential generator and the seed is its first state
RandNext(x) == (x * 75 + 74) % 65537

\* the seeds a shuffle may get
Seeds == {1, 2}

\* mutant: the swap writes one of its two positions only
Swap_Overwrites(deck, i, j) == [deck EXCEPT ![i] = deck[j]]

Swap(deck, i, j) == [deck EXCEPT ![i] = deck[j], ![j] = deck[i]]

RECURSIVE FisherYates(_, _, _)

\* for i := len(deck) - 1; i > 0; i-- { j := r.Intn(i + 1); swap i, j }
\* (positions count from 1 here, so n is i + 1 of the source)
FisherYates(deck, n, x) ==
    IF n <= 1
    THEN deck
    ELSE LET x1 == RandNext(x)
         IN FisherYates(Swap(deck, n, (x1 % n) + 1), n - 1, x1)

ShuffleDeck(deck, seed) == FisherYates(deck, Len(deck), seed)

\* mutant: the dealt cards stay in the deck
DealCards_KeepsDeck(deck, count) ==
    LET n == IF count > Len(deck) THEN Len(deck) ELSE count
    IN <<SubSeq(deck, 1, n), deck>>

\* DealCards: <<hand, remainingDeck>>
DealCards(deck, count) ==
    LET n == IF count > Len(deck) THEN Len(deck) ELSE count
    IN <<SubSeq(deck, 1, n), SubSeq(deck, n + 1, Len(deck))>>

\* mutant: the cards are checked in the order they came in
SortByValue_AsDealt(cards) == cards

RECURSIVE SortByValue(_)

\* sort.Slice by Value, descending (the order of cards of equal value is not
\* fixed by sort.Slice; the checks below read only the values by position and
\* the set of suits)
SortByValue(cards) ==
    IF Len(cards) <= 1
    THEN cards
    ELSE LET top == CHOOSE i \in 1..Len(cards) :
                        /\ \A j \in 1..Len(cards) : cards[i].Value >= cards[j].Value
                        /\ \A j \in 1..(i - 1) : cards[j].Value < cards[i].Value
         IN <<cards[top]>> \o SortByValue(SubSeq(cards, 1, top - 1)
                                            \o SubSeq(cards, top + 1, Len(cards)))

isFlush(cards) == \A i \in 1..Len(cards) : cards[i].Suit = cards[1].Suit

isStraight(cards) ==
    \/ /\ cards[1].Value = 14
       /\ cards[2].Value = 5
       /\ cards[3].Value = 4
       /\ cards[4].Value = 3
       /\ cards[5].Value = 2
    \/ \A i \in 1..(Len(cards) - 1) : cards[i].Value = cards[i + 1].Value + 1

isRoyalFlush(cards) ==
    /\ isFlush(cards)
    /\ \A i \in 1..5 : cards[i].Value = <<14, 13, 12, 11, 10>>[i]

isStraightFlush(cards) == isFlush(cards) /\ isStraight(cards)

isFourOfAKind(cards) ==
    \/ /\ cards[1].Value = cards[2].Value
       /\ cards[2].Value = cards[3].Value
       /\ cards[3].Value = cards[4].Value
    \/ /\ cards[2].Value = cards[3].Value
       /\ cards[3].Value = cards[4].Value
       /\ cards[4].Value = cards[5].Value

isFullHouse(cards) ==
    \/ /\ cards[1].Value = cards[2].Value
       /\ cards[2].Value = cards[3].Value
       /\ cards[4].Value = cards[5].Value
    \/ /\ cards[1].Value = cards[2].Value
       /\ cards[3].Value = cards[4].Value
       /\ cards[4].Value = cards[5].Value

isThreeOfAKind(cards) ==
    \/ cards[1].Value = cards[2].Value /\ cards[2].Value = cards[3].Value
    \/ cards[2].Value = cards[3].Value /\ cards[3].Value = cards[4].Value
    \/ cards[3].Value = cards[4].Value /\ cards[4].Value = cards[5].Value

RECURSIVE pairCount(_, _)

\* the loop of isTwoPair from position i on: a pair found skips its second card
pairCount(cards, i) ==
    IF i > Len(cards) - 1
    THEN 0
    ELSE IF cards[i].Value = cards[i + 1].Value
         THEN 1 + pairCount(cards, i + 2)
         ELSE pairCount(cards, i + 1)

isTwoPair(cards) == pairCount(cards, 1) = 2

isPair(cards) == \E i \in 1..(Len(cards) - 1) : cards[i].Value = cards[i + 1].Value

handRankValues ==
    [high_card |-> 1, pair |-> 2, two_pair |-> 3, three_of_a_kind |-> 4, straight |-> 5,
     flush |-> 6, full_house |-> 7, four_of_a_kind |-> 8, straight_flush |-> 9,
     royal_flush |-> 10]

handRankNames ==
    [high_card |-> "High Card", pair |-> "Pair", two_pair |-> "Two Pair",
     three_of_a_kind |-> "Three of a Kind", straight |-> "Straight", flush |-> "Flush",
     full_house |-> "Full House", four_of_a_kind |-> "Four of a Kind",
     straight_flush |-> "Straight Flush", royal_flush |-> "Royal Flush"]

HandRank(t) == [Type |-> t, Value |-> handRankValues[t], Name |-> handRankNames[t]]

EvaluateHand(cards) ==
    IF Len(cards) # 5
    THEN HandRank("high_card")
    ELSE LET sortedCards == SortByValue(cards)
         IN IF isRoyalFlush(sortedCards) THEN HandRank("royal_flush")
            ELSE IF isStraightFlush(sortedCards) THEN HandRank("straight_flush")
            ELSE IF isFourOfAKind(sortedCards) THEN HandRank("four_of_a_kind")
            ELSE IF isFullHouse(sortedCards) THEN HandRank("full_house")
            ELSE IF isFlush(sortedCards) THEN HandRank("flush")
            ELSE IF isStraight(sortedCards) THEN HandRank("straight")
            ELSE IF isThreeOfAKind(sortedCards) THEN HandRank("three_of_a_kind")
            ELSE IF isTwoPair(sortedCards) THEN HandRank("two_pair")
            ELSE IF isPair(sortedCards) THEN HandRank("pair")
            ELSE HandRank("high_card")

goldValues ==
    1 :> 10 @@ 2 :> 20 @@ 3 :> 30 @@ 4 :> 50 @@ 5 :> 80 @@ 6 :> 100 @@ 7 :> 150
    @@ 8 :> 200 @@ 9 :> 300 @@ 10 :> 500

calculateGoldForHand(handRankValue) ==
    IF handRankValue \in DOMAIN goldValues THEN goldValues[handRankValue] ELSE 10

\* ------------------------------------------------------------------------
\* readPump: the card round
\* ------------------------------------------------------------------------

\* a frame of the card round can be read
CanReadRound(c) ==
    /\ Running
    /\ pc[c] = "read"
    /\ sock[c] = "open"

\* the cards_dealt response; goldEarned is added on the final draw only
CardsDealt(hand, drawCount, room, final) ==
    [type |-> "cards_dealt",
     payload |-> IF final
                 THEN [cards |-> hand, handRank |-> EvaluateHand(hand),
                       drawCount |-> drawCount, maxDraws |-> 3,
                       goldEarned |-> calculateGoldForHand(EvaluateHand(hand).Value)]
                 ELSE [cards |-> hand, handRank |-> EvaluateHand(hand),
                       drawCount |-> drawCount, maxDraws |-> 3],
     roomId |-> room,
     senderId |-> "server"]

\* case "deal_cards": a first draw (DrawCount == 0), a second or third draw
\* (DrawCount 1 or 2), or a reset followed by a first draw (any other count);
\* the response is sent on Hub.Broadcast
RecvDealCards(c, room, seed) ==
    /\ CanReadRound(c)
    /\ nEvents' = nEvents + 1
    /\ UNCHANGED arrived
    /\ LET msg == FillDefaults(c, [type |-> "deal_cards", payload |-> EmptyPayload,
                                   roomId |-> room, senderId |-> ""])
           redraw == DrawCount[c] = 1 \/ DrawCount[c] = 2
           heldCards == SelectSeq(CurrentHand[c], LAMBDA card : card.Held)
           discardCount == Len(CurrentHand[c]) - Len(heldCards)
           dealt == IF redraw
                    THEN DealCards(CurrentDeck[c], discardCount)
                    ELSE DealCards(ShuffleDeck(NewDeck, seed), 5)
           hand == IF redraw THEN heldCards \o dealt[1] ELSE dealt[1]
           count == IF redraw THEN DrawCount[c] + 1 ELSE 1
       IN /\ CurrentHand' = [CurrentHand EXCEPT ![c] = hand]
          /\ CurrentDeck' = [CurrentDeck EXCEPT ![c] = dealt[2]]
          /\ DrawCount' = [DrawCount EXCEPT ![c] = count]
          /\ pending' = [pending EXCEPT ![c] =
                            CardsDealt(hand, count, msg.roomId, redraw /\ count >= 3)]
          /\ trail' = Handled(c, "deal_cards", pending'[c], count)
    /\ pc' = [pc EXCEPT ![c] = "bcast"]
    /\ UNCHANGED <<regVars, idVars, chanVars, sock, wpc, hubPc, iterVars, mainVars,
                   WaveLevel, panicked, obs>>
    /\ UNCHANGED rule

\* room[key]: the client stored under the key in the member map of the room
\* (a set with that client, or the empty set)
RoomClient(room, key) == {d \in Rooms[room] : ClientID(d) = key}

\* the hub may be writing Hub.Rooms or a room's member map right now
HubWriting ==
    \/ hubPc = "evict_lock"
    \/ /\ hubPc = "select"
       /\ \E d \in Conns : pc[d] = "register" \/ (pc[d] = "unregister" /\ d \in Clients)

\* case "hold_hand": the room of the connection is looked up in Hub.Rooms and
\* the player id in the room's member map, without the hub's lock; a read
\* that meets a write of the hub can end the process (fatal: concurrent map
\* read and map write); the client found gets DrawCount 2 and a deal_cards
\* message is sent on Hub.Broadcast
RecvHoldHand(c, fatal) ==
    /\ CanReadRound(c)
    /\ nEvents' = nEvents + 1
    /\ UNCHANGED arrived
    /\ fatal => HubWriting
    /\ IF fatal
       THEN /\ panicked' = TRUE
            /\ UNCHANGED <<DrawCount, pending, pc, trail>>
       ELSE /\ UNCHANGED panicked
            /\ IF /\ RoomID[c] \in DOMAIN Rooms
                  /\ RoomClient(RoomID[c], PlayerID[c]) # {}
                  /\ \A client \in RoomClient(RoomID[c], PlayerID[c]) :
                         DrawCount[client] < 3
               THEN /\ DrawCount' = [d \in Conns |->
                                        IF d \in RoomClient(RoomID[c], PlayerID[c])
                                        THEN 2 ELSE DrawCount[d]]
                    /\ pending' = [pending EXCEPT ![c] =
                                      [type |-> "deal_cards", payload |-> EmptyPayload,
                                       roomId |-> RoomID[c], senderId |-> PlayerID[c]]]
                    /\ pc' = [pc EXCEPT ![c] = "bcast"]
               ELSE UNCHANGED <<DrawCount, pending, pc>>
            /\ trail' = Handled(c, "hold_hand", pending'[c], DrawCount'[c])
    /\ UNCHANGED <<regVars, idVars, chanVars, sock, wpc, hubPc, iterVars, mainVars,
                   CurrentHand, CurrentDeck, WaveLevel, obs>>
    /\ UNCHANGED rule

\* mutant: the flag of the card is inverted
SetHeld_Toggles(hand, cardID, held) ==
    IF \E i \in 1..Len(hand) : hand[i].ID = cardID
    THEN LET first == CHOOSE i \in 1..Len(hand) :
                          /\ hand[i].ID = cardID
                          /\ \A j \in 1..(i - 1) : hand[j].ID # cardID
         IN [hand EXCEPT ![first].Held = ~hand[first].Held]
    ELSE hand

\* mutant: an id that is not in the hand flags the first card
SetHeld_FirstCard(hand, cardID, held) ==
    IF hand = <<>> THEN hand
    ELSE LET first == IF \E i \in 1..Len(hand) : hand[i].ID = cardID
                      THEN CHOOSE i \in 1..Len(hand) :
                               /\ hand[i].ID = cardID
                               /\ \A j \in 1..(i - 1) : hand[j].ID # cardID
                      ELSE 1
         IN [hand EXCEPT ![first].Held = held]

\* the first card of the hand with the given id gets Held = held
SetHeld(hand, cardID, held) ==
    IF \E i \in 1..Len(hand) : hand[i].ID = cardID
    THEN LET first == CHOOSE i \in 1..Len(hand) :
                          /\ hand[i].ID = cardID
                          /\ \A j \in 1..(i - 1) : hand[j].ID # cardID
         IN [hand EXCEPT ![first].Held = held]
    ELSE hand

\* case "hold_card" (held) and case "discard_card" (~held): the flag of the
\* card is set and the frame is forwarded on Hub.Broadcast
RecvHoldCard(c, room, sender, cardID, held) ==
    /\ CanReadRound(c)
    /\ nEvents' = nEvents + 1
    /\ UNCHANGED arrived
    /\ CurrentHand' = [CurrentHand EXCEPT ![c] = SetHeld(@, cardID, held)]
    /\ pending' = [pending EXCEPT ![c] =
                      FillDefaults(c, [type |-> IF held THEN "hold_card" ELSE "discard_card",
                                       payload |-> [cardId |-> cardID],
                                       roomId |-> room, senderId |-> sender])]
    /\ pc' = [pc EXCEPT ![c] = "bcast"]
    /\ trail' = Handled(c, pending'[c].type, pending'[c], DrawCount[c])
    /\ UNCHANGED <<regVars, idVars, chanVars, sock, wpc, hubPc, iterVars, mainVars,
                   DrawCount, CurrentDeck, WaveLevel, panicked, obs>>
    /\ UNCHANGED rule

\* the path of every wave: a square, walked from its top-left corner
wavePath ==
    <<[X |-> 50, Y |-> 50], [X |-> 550, Y |-> 50], [X |-> 550, Y |-> 450],
      [X |-> 50, Y |-> 450], [X |-> 50, Y |-> 50]>>

\* the type of the i-th enemy (i from 0) of a wave of the given level
enemyType(level, i) ==
    IF level >= 3 /\ i % 4 = 0 THEN "fast"
    ELSE IF level >= 2 /\ i % 6 = 0 THEN "tank"
    ELSE IF i % 5 = 0 THEN "fast"
    ELSE IF i % 7 = 0 THEN "tank"
    ELSE "basic"

\* base health, base speed (in tenths) and base gold of an enemy type
baseStats(type) ==
    IF type = "fast" THEN [Health |-> 20, Speed10 |-> 15, Gold |-> 7]
    ELSE IF type = "tank" THEN [Health |-> 60, Speed10 |-> 7, Gold |-> 10]
    ELSE [Health |-> 30, Speed10 |-> 10, Gold |-> 5]

\* the difficulty multipliers of a level: health in tenths (1.0 + 0.2 per
\* level above 1), speed in hundredths (1.0 + 0.05), gold in tenths (1.0 + 0.1)
healthMultiplier10(level) == 10 + (level - 1) * 2

speedMultiplier100(level) == 100 + (level - 1) * 5

goldMultiplier10(level) == 10 + (level - 1)

\* an enemy at the start of the path; int() truncates the products, which the
\* float64 arithmetic of the code computes exactly up to level 18; the speed
\* is kept in thousandths; the id, read from the clock, is left out
makeEnemy(type, health10, speed10, gold10, damage, level) ==
    LET health == (health10 * healthMultiplier10(level)) \div 10
    IN [Type |-> type, Health |-> health, MaxHealth |-> health,
        Speed1000 |-> speed10 * speedMultiplier100(level), Damage |-> damage,
        Gold |-> (gold10 * goldMultiplier10(level)) \div 10,
        X |-> wavePath[1].X, Y |-> wavePath[1].Y, PathIndex |-> 0, Active |-> TRUE]

\* mutant: every wave ends with a boss
waveEnemies_AlwaysBoss(level) ==
    LET baseEnemyCount == 5 + level * 2
        regular == [k \in 1..baseEnemyCount |->
                       LET t == enemyType(level, k - 1)
                       IN makeEnemy(t, baseStats(t).Health, baseStats(t).Speed10,
                                    baseStats(t).Gold, 1, level)]
    IN Append(regular, makeEnemy("boss", 100, 6, 25, 3, level))

\* the enemies of a wave: 5 + 2 * level by type, and a boss on every fifth level
waveEnemies(level) ==
    LET baseEnemyCount == 5 + level * 2
        hasBoss == level > 0 /\ level % 5 = 0
        regular == [k \in 1..baseEnemyCount |->
                       LET t == enemyType(level, k - 1)
                       IN makeEnemy(t, baseStats(t).Health, baseStats(t).Speed10,
                                    baseStats(t).Gold, 1, level)]
    IN IF hasBoss THEN Append(regular, makeEnemy("boss", 100, 6, 25, 3, level))
       ELSE regular

\* the wave_started response; the wave's id and start time, read from the
\* clock, are left out
WaveStarted(level, room) ==
    [type |-> "wave_started",
     payload |-> [wave |-> [Round |-> level, Level |-> level, Enemies |-> waveEnemies(level),
                            Path |-> wavePath, Status |-> "active"]],
     roomId |-> room,
     senderId |-> "server"]

\* mutant: every wave is the first wave
RecvStartWave_Restarts(c, room) ==
    /\ CanReadRound(c)
    /\ nEvents' = nEvents + 1
    /\ UNCHANGED arrived
    /\ LET msg == FillDefaults(c, [type |-> "start_wave", payload |-> EmptyPayload,
                                   roomId |-> room, senderId |-> ""])
       IN /\ WaveLevel' = [WaveLevel EXCEPT ![c] = 1]
          /\ pending' = [pending EXCEPT ![c] = WaveStarted(WaveLevel'[c], msg.roomId)]
    /\ pc' = [pc EXCEPT ![c] = "bcast_wave"]
    /\ trail' = Handled(c, "start_wave", pending'[c], DrawCount[c])
    /\ UNCHANGED <<regVars, idVars, chanVars, sock, wpc, hubPc, iterVars, mainVars,
                   DrawCount, CurrentHand, CurrentDeck, panicked, obs>>
    /\ UNCHANGED rule

\* case "start_wave", up to the send: the wave level goes up by one and the
\* wave of the new level is sent on Hub.Broadcast
RecvStartWave(c, room) ==
    /\ CanReadRound(c)
    /\ nEvents' = nEvents + 1
    /\ UNCHANGED arrived
    /\ LET msg == FillDefaults(c, [type |-> "start_wave", payload |-> EmptyPayload,
                                   roomId |-> room, senderId |-> ""])
       IN /\ WaveLevel' = [WaveLevel EXCEPT ![c] = @ + 1]
          /\ pending' = [pending EXCEPT ![c] = WaveStarted(WaveLevel'[c], msg.roomId)]
    /\ pc' = [pc EXCEPT ![c] = "bcast_wave"]
    /\ trail' = Handled(c, "start_wave", pending'[c], DrawCount[c])
    /\ UNCHANGED <<regVars, idVars, chanVars, sock, wpc, hubPc, iterVars, mainVars,
                   DrawCount, CurrentHand, CurrentDeck, panicked, obs>>
    /\ UNCHANGED rule

\* case "start_wave", after the hub took the response: c.DrawCount = 0
StartWaveDone(c) ==
    /\ pc[c] = "postwave"
    /\ DrawCount' = [DrawCount EXCEPT ![c] = 0]
    /\ pc' = [pc EXCEPT ![c] = "read"]
    /\ trail' = [trail EXCEPT ![c].dcAfter = 0]
    /\ UNCHANGED <<regVars, idVars, chanVars, sock, wpc, pending, hubPc, iterVars,
                   mainVars, CurrentHand, CurrentDeck, WaveLevel, nEvents, arrived, panicked, obs>>
    /\ UNCHANGED rule

\* mutant: a frame that does not decode ends the inbound loop like a read
\* error
RecvMalformed_Closes(c) ==
    /\ CanReadRound(c)
    /\ nEvents' = nEvents + 1
    /\ UNCHANGED arrived
    /\ trail' = Handled(c, "malformed", NoMsg, DrawCount[c])
    /\ pc' = [pc EXCEPT ![c] = "unregister"]
    /\ UNCHANGED <<regVars, idVars, chanVars, sock, wpc, pending, hubPc, iterVars,
                   mainVars, stateVars, panicked, obs>>
    /\ UNCHANGED rule

\* a frame that json.Unmarshal rejects: the error is logged and the loop
\* reads the next frame
RecvMalformed(c) ==
    /\ CanReadRound(c)
    /\ nEvents' = nEvents + 1
    /\ UNCHANGED arrived
    /\ trail' = Handled(c, "malformed", NoMsg, DrawCount[c])
    /\ UNCHANGED <<regVars, idVars, chanVars, pumpVars, hubPc, iterVars, mainVars,
                   stateVars, panicked, obs>>
    /\ UNCHANGED rule

\* case "hold_card" and case "discard_card" with a payload that does not
\* decode into {cardId string}: the error is logged and the loop reads the
\* next frame
RecvHoldCardUndecoded(c, held) ==
    /\ CanReadRound(c)
    /\ nEvents' = nEvents + 1
    /\ UNCHANGED arrived
    /\ trail' = Handled(c, IF held THEN "hold_card" ELSE "discard_card", NoMsg, DrawCount[c])
    /\ UNCHANGED <<regVars, idVars, chanVars, pumpVars, hubPc, iterVars, mainVars,
                   stateVars, panicked, obs>>
    /\ UNCHANGED rule

\* ------------------------------------------------------------------------
\* The tower rules (internal/game) and the tower handlers of readPump;
\* ranges and attack speeds are kept in thousandths
\* ------------------------------------------------------------------------

towerCosts == "basic" :> 50 @@ "splash" :> 100 @@ "sniper" :> 150 @@ "slow" :> 75

towerRanges == "basic" :> 100000 @@ "splash" :> 75000 @@ "sniper" :> 200000 @@ "slow" :> 100000

towerDamages == "basic" :> 10 @@ "splash" :> 5 @@ "sniper" :> 30 @@ "slow" :> 5

towerSpeeds == "basic" :> 1000 @@ "splash" :> 500 @@ "sniper" :> 500 @@ "slow" :> 1500

\* m[k] of a Go map: the zero value when the key is missing
MapGet(m, k) == IF k \in DOMAIN m THEN m[k] ELSE 0

\* CreateTower; id is what GenerateID reads from the clock
CreateTower(id, playerID, towerType, x, y) ==
    [ID |-> id, PlayerID |-> playerID, Type |-> towerType, Level |-> 1, X |-> x, Y |-> y,
     Range |-> MapGet(towerRanges, towerType), Damage |-> MapGet(towerDamages, towerType),
     Speed |-> MapGet(towerSpeeds, towerType), Cost |-> MapGet(towerCosts, towerType),
     LastShot |-> 0]

\* UpgradeTower: the next level; range and speed times 1.2 (exact in
\* thousandths up to level 4), damage and cost times 1.5, truncated
UpgradeTower(tower) ==
    [tower EXCEPT !.Level = @ + 1,
                  !.Range = (@ * 12) \div 10,
                  !.Damage = (@ * 3) \div 2,
                  !.Speed = (@ * 12) \div 10,
                  !.Cost = (@ * 3) \div 2]

\* mutant: the sniper tower has the stats of the splash tower
placeTowerStats_NoSniper(towerType) ==
    IF towerType = "basic" THEN [Range |-> 100000, Damage |-> 10, Speed |-> 1000, Cost |-> 50]
    ELSE IF towerType \in {"splash", "sniper"}
    THEN [Range |-> 75000, Damage |-> 5, Speed |-> 500, Cost |-> 100]
    ELSE IF towerType = "slow" THEN [Range |-> 100000, Damage |-> 5, Speed |-> 1500, Cost |-> 75]
    ELSE [Range |-> 100000, Damage |-> 10, Speed |-> 1000, Cost |-> 50]

\* case "place_tower": switch payload.TowerType
placeTowerStats(towerType) ==
    IF towerType = "basic" THEN [Range |-> 100000, Damage |-> 10, Speed |-> 1000, Cost |-> 50]
    ELSE IF towerType = "splash" THEN [Range |-> 75000, Damage |-> 5, Speed |-> 500, Cost |-> 100]
    ELSE IF towerType = "sniper" THEN [Range |-> 200000, Damage |-> 30, Speed |-> 500, Cost |-> 150]
    ELSE IF towerType = "slow" THEN [Range |-> 100000, Damage |-> 5, Speed |-> 1500, Cost |-> 75]
    ELSE [Range |-> 100000, Damage |-> 10, Speed |-> 1000, Cost |-> 50]

\* the tower_placed and tower_upgraded responses
TowerMessage(type, tower, room) ==
    [type |-> type, payload |-> [tower |-> tower], roomId |-> room, senderId |-> "server"]

\* case "place_tower": a level-1 tower of the type and at the place the frame
\* names, with the stats of its type, is sent as tower_placed; id is what
\* generateID reads from the clock
RecvPlaceTower(c, room, sender, id, towerType, x, y) ==
    /\ CanReadRound(c)
    /\ nEvents' = nEvents + 1
    /\ LET msg == FillDefaults(c, [type |-> "place_tower",
                                   payload |-> [towerType |-> towerType, x |-> x, y |-> y],
                                   roomId |-> room, senderId |-> sender])
           stats == placeTowerStats(towerType)
           tower == [ID |-> id, PlayerID |-> msg.senderId, Type |-> towerType, Level |-> 1,
                     X |-> x, Y |-> y, Range |-> stats.Range, Damage |-> stats.Damage,
                     Speed |-> stats.Speed, Cost |-> stats.Cost, LastShot |-> 0]
       IN pending' = [pending EXCEPT ![c] = TowerMessage("tower_placed", tower, msg.roomId)]
    /\ pc' = [pc EXCEPT ![c] = "bcast"]
    /\ trail' = Handled(c, "place_tower", pending'[c], DrawCount[c])
    /\ UNCHANGED <<regVars, idVars, chanVars, sock, wpc, hubPc, iterVars, mainVars,
                   stateVars, panicked, arrived, rule, obs>>

\* case "upgrade_tower": a basic tower of level 2 at (300, 300) with the id
\* the frame names is sent as tower_upgraded
RecvUpgradeTower(c, room, sender, towerID) ==
    /\ CanReadRound(c)
    /\ nEvents' = nEvents + 1
    /\ LET msg == FillDefaults(c, [type |-> "upgrade_tower", payload |-> [towerId |-> towerID],
                                   roomId |-> room, senderId |-> sender])
           tower == [ID |-> towerID, PlayerID |-> msg.senderId, Type |-> "basic", Level |-> 2,
                     X |-> 300, Y |-> 300, Range |-> 120000, Damage |-> 15,
                     Speed |-> 1200, Cost |-> 75, LastShot |-> 0]
       IN pending' = [pending EXCEPT ![c] = TowerMessage("tower_upgraded", tower, msg.roomId)]
    /\ pc' = [pc EXCEPT ![c] = "bcast"]
    /\ trail' = Handled(c, "upgrade_tower", pending'[c], DrawCount[c])
    /\ UNCHANGED <<regVars, idVars, chanVars, sock, wpc, hubPc, iterVars, mainVars,
                   stateVars, panicked, arrived, rule, obs>>

\* case "place_tower" and case "upgrade_tower" with a payload that does not
\* decode: the error is logged and the loop reads the next frame
RecvTowerUndecoded(c, type) ==
    /\ CanReadRound(c)
    /\ nEvents' = nEvents + 1
    /\ trail' = Handled(c, type, NoMsg, DrawCount[c])
    /\ UNCHANGED <<regVars, idVars, chanVars, pumpVars, hubPc, iterVars, mainVars,
                   stateVars, panicked, arrived, rule, obs>>

\* ------------------------------------------------------------------------
\* The hub specification: connections, rooms, pass-through traffic
\* ------------------------------------------------------------------------

\* the connections of the hub specification
HubConns == {"a1", "a2"}

Connect == \E c \in HubConns, r \in RoomArgs : HandleWebSocket(c, "p1", r)

Socket ==
    \E c \in Conns :
        \/ ReadError(c)
        \/ ReadPumpClose(c)
        \/ \E ok \in BOOLEAN : WritePumpWrite(c, ok)
        \/ WritePumpClosed(c)

HubStep ==
    \/ \E c \in Conns : HubRegister(c)
    \/ \E c \in Conns : HubUnregister(c)
    \/ \E c \in Conns : HubBroadcast(c)
    \/ \E c \in Conns : FanoutStep(c)
    \/ EvictLock
    \/ EvictRLock
    \/ FanoutDone

RoomCalls ==
    \/ \E c \in Conns, r \in RoomArgs, b \in BOOLEAN : JoinRoom(c, r, b)
    \/ \E c \in Conns, r \in RoomArgs : LeaveRoom(c, r)

Traffic == nEvents < MaxEvents /\ \E c \in Conns, r \in RoomArgs : RecvOther(c, "chat", r, "")

Next == Connect \/ Socket \/ HubStep \/ RoomCalls \/ Traffic

Spec == Init /\ [][Next]_vars

\* ------------------------------------------------------------------------
\* The room specification: two connections of room r1 and a third one of r1
\* or r2, each talking to its own room
\* ------------------------------------------------------------------------

ConnectRoom ==
    \/ \E c \in HubConns : HandleWebSocket(c, "p1", "r1")
    \/ \E r \in RoomIds : HandleWebSocket("a3", "p1", r)

TrafficRoom == nEvents < MaxEvents /\ \E c \in Conns : RecvOther(c, "chat", "", "")

\* every write to an open socket succeeds
SocketRoom ==
    \E c \in Conns :
        \/ ReadError(c)
        \/ ReadPumpClose(c)
        \/ WritePumpWrite(c, sock[c] = "open")
        \/ WritePumpClosed(c)

NextRoom == ConnectRoom \/ SocketRoom \/ HubStep \/ TrafficRoom

RoomSpec == Init /\ [][NextRoom]_vars

\* ------------------------------------------------------------------------
\* The round specification: one connection plays the card round in room r1
\* under a player id that is a name or its own connection id
\* ------------------------------------------------------------------------

PlayerArgs == {"p1", "a1"}

\* the card ids a frame may name: the first card of the hand and a card that
\* does not exist
CardArgs(c) == {CurrentHand[c][i].ID : i \in {1} \cap DOMAIN CurrentHand[c]} \cup {"joker"}

ConnectRound == \E p \in PlayerArgs : HandleWebSocket("a1", p, "r1")

Round ==
    /\ nEvents < MaxRoundEvents
    /\ \E c \in Conns :
        \/ \E seed \in Seeds : RecvDealCards(c, "", seed)
        \/ \E fatal \in BOOLEAN : RecvHoldHand(c, fatal)
        \/ \E id \in CardArgs(c), held \in BOOLEAN : RecvHoldCard(c, "", "", id, held)
        \/ RecvStartWave(c, "")
        \/ RecvMalformed(c)

RoundDone == \E c \in Conns : StartWaveDone(c)

NextRound == ConnectRound \/ SocketRoom \/ HubStep \/ Round \/ RoundDone

RoundSpec == Init /\ [][NextRound]_vars

\* ------------------------------------------------------------------------
\* Claims about the card round
\* ------------------------------------------------------------------------

\* C10: hold_hand followed by deal_cards on a connection, from a draw count
\* below 3, ends with draw count 3 and a cards_dealt emission that carries
\* goldEarned computed from the rank of the final hand, as two plain
\* deal_cards from draw count 1 do
C10_HoldHandThenDeal ==
    \A c \in Conns :
        (/\ trail[c].prev = "hold_hand"
         /\ trail[c].prevDc < 3
         /\ trail[c].last = "deal_cards") =>
            /\ trail[c].dcAfter = 3
            /\ trail[c].emit.type = "cards_dealt"
            /\ "goldEarned" \in DOMAIN trail[c].emit.payload
            /\ trail[c].emit.payload.goldEarned =
                   calculateGoldForHand(EvaluateHand(CurrentHand[c]).Value)

\* ------------------------------------------------------------------------
\* The shutdown specification: two connections of room r1, the signal that
\* cancels the context, and the scheduling the Go runtime guarantees
\* ------------------------------------------------------------------------

ConnectLive == \E c \in HubConns : HandleWebSocket(c, "p1", "r1")

Shutdown == Cancel \/ HubStop \/ MainExit

NextLive == ConnectLive \/ Socket \/ HubStep \/ TrafficRoom \/ Shutdown

\* a goroutine that can run does run; a select picks among its ready cases at
\* random, so a case that stays ready is taken (weak fairness is all that is
\* assumed of the select).  The peers (new connections, frames, read errors,
\* writes to the socket) and the signal owe nothing.
LiveFairness ==
    /\ \A c \in HubConns : WF_vars(HubRegister(c))
    /\ \A c \in HubConns : WF_vars(HubUnregister(c))
    /\ \A c \in HubConns : WF_vars(HubBroadcast(c))
    /\ WF_vars(HubStop)
    /\ WF_vars(\E c \in HubConns : FanoutStep(c))
    /\ WF_vars(EvictLock)
    /\ WF_vars(EvictRLock)
    /\ WF_vars(FanoutDone)
    /\ WF_vars(MainExit)
    /\ \A c \in HubConns : WF_vars(ReadPumpClose(c))
    /\ \A c \in HubConns : WF_vars(WritePumpClosed(c))

LiveSpec == Init /\ [][NextLive]_vars /\ LiveFairness

\* ------------------------------------------------------------------------
\* Claims about unregistration, shutdown and the hub's progress
\* ------------------------------------------------------------------------

\* C5: a connection whose inbound loop has exited signals Unregister (once:
\* the deferred function runs once), and the signal is eventually accepted, so
\* that the connection is in neither the connection map nor any room
C5_UnregisterAccepted ==
    \A c \in HubConns :
        (pc[c] = "unregister") ~>
            (/\ pc[c] \in {"close", "done"}
             /\ c \notin Clients
             /\ \A r \in DOMAIN Rooms : c \notin Rooms[r])

\* C6: once the process has ended after the shutdown signal, the outbound
\* queue of every connection that was registered at the signal is closed
C6_ShutdownClosesAll ==
    mainPc = "exited" => \A c \in atCancel : SendClosed[c]

\* a connection is blocked sending a request to the hub
C7_Blocked(c) == pc[c] \in {"register", "unregister", "bcast", "bcast_wave"}

\* what is left of a fan-out: three steps at most per member still to visit
C7_Measure ==
    3 * Cardinality(hubTodo)
      + (IF hubPc = "evict_lock" THEN 2 ELSE IF hubPc = "evict_rlock" THEN 1 ELSE 0)

\* every step of the hub inside a fan-out ends it or brings it nearer its end
C7_FanoutStep ==
    (hubPc # "select" /\ <<hubPc, hubTodo>>' # <<hubPc, hubTodo>>) =>
        (hubPc' = "select" \/ panicked' \/ C7_Measure' < C7_Measure)

\* C7: the hub never waits on a consumer: whatever the fill state of the
\* queues, a fan-out is over after a bounded number of steps, the hub is back
\* at its select, and a request of a connection is eventually taken while the
\* hub is running
C7_HubNeverWaits ==
    /\ [][C7_FanoutStep]_vars
    /\ (hubPc \in {"fanout", "evict_lock", "evict_rlock"}) ~> (hubPc = "select" \/ ~Running)
    /\ \A c \in HubConns :
           C7_Blocked(c) ~> (~C7_Blocked(c) \/ hubPc = "stopped" \/ ~Running)

\* a fan-out has evicted a member with a full queue and visited every target
\* while another connection's request is waiting for the hub
C7_Witness ==
    /\ FanoutOver
    /\ obs.evicted # {}
    /\ \E c \in HubConns : C7_Blocked(c)

\* ------------------------------------------------------------------------
\* Claims about the hub
\* ------------------------------------------------------------------------

\* the case of C1: a fan-out to a room is over, exactly one member's queue was
\* full when it began, at least one other member had room, and neither a
\* writePump nor a room call ran meanwhile
C1_Case ==
    /\ FanoutOver
    /\ obs.quiet
    /\ obs.msg.roomId # ""
    /\ Cardinality(obs.full) = 1
    /\ obs.targets \ obs.full # {}

\* C1: a broadcast to a room with exactly one full member and N members with
\* free space is enqueued to all N; the full member is the only connection
\* removed from the connection map and from the room, and its queue is closed;
\* no other connection's room, membership or queue is changed by the eviction
C1_EvictsOnlyFull ==
    C1_Case =>
        /\ obs.delivered = obs.targets \ obs.full
        /\ obs.evicted = obs.full
        /\ Clients = obs.start.Clients \ obs.full
        /\ DOMAIN Rooms = DOMAIN obs.start.Rooms
        /\ \A r \in DOMAIN Rooms :
               Rooms[r] = IF r = obs.msg.roomId
                          THEN obs.start.Rooms[r] \ obs.full
                          ELSE obs.start.Rooms[r]
        /\ \A c \in obs.full : SendClosed[c] /\ Send[c] = obs.start.Send[c]
        /\ \A c \in obs.start.Clients \ obs.full :
               /\ SendClosed[c] = obs.start.SendClosed[c]
               /\ RoomID[c] = obs.start.RoomID[c]
               /\ Send[c] = IF c \in obs.targets
                            THEN Append(obs.start.Send[c], encodeMessage(obs.msg))
                            ELSE obs.start.Send[c]

\* a room of three: one full member evicted, two members served
C1_Witness == C1_Case /\ Cardinality(obs.targets) = 3 /\ Cardinality(obs.delivered) = 2

\* C2, state part: an undisturbed fan-out has visited exactly the members the
\* room had when it began (none when the room does not exist), or exactly the
\* registered connections when the message names no room, and has enqueued
\* the message to every one of them whose queue had room
C2_Visited ==
    (FanoutOver /\ obs.quiet) =>
        LET want == IF obs.msg.roomId # ""
                    THEN IF obs.msg.roomId \in DOMAIN obs.start.Rooms
                         THEN obs.start.Rooms[obs.msg.roomId]
                         ELSE {}
                    ELSE obs.start.Clients
        IN /\ obs.delivered \cup obs.evicted = want
           /\ obs.delivered = {c \in want : Len(obs.start.Send[c]) < SendCap}

\* C2, step part: whenever a queue grows, the hub is fanning out, the message
\* enqueued is the encoded broadcast, and the receiver is at that moment a
\* member of the room the message names, or registered when it names none
C2_Enqueue ==
    \A c \in Conns :
        Len(Send'[c]) > Len(Send[c]) =>
            /\ hubPc = "fanout"
            /\ Send'[c] = Append(Send[c], encodeMessage(hubMsg))
            /\ IF hubMsg.roomId # ""
               THEN hubMsg.roomId \in DOMAIN Rooms /\ c \in Rooms[hubMsg.roomId]
               ELSE c \in Clients

\* C2: a broadcast with a room id is enqueued only to members of that room at
\* fan-out time; a broadcast without a room id goes to every registered
\* connection
C2_BroadcastScope == []C2_Visited /\ [][C2_Enqueue]_vars

\* a room broadcast was delivered while a registered connection is no member
C2_Witness ==
    /\ FanoutOver
    /\ obs.quiet
    /\ obs.msg.roomId # ""
    /\ obs.delivered # {}
    /\ obs.start.Clients \ obs.targets # {}

\* C3: the room index never holds a room without members
C3_NoEmptyRoom == \A r \in DOMAIN Rooms : Rooms[r] # {}

\* the last member of a room was unregistered and the room is gone
C3_Witness ==
    /\ obs.op = "unregister"
    /\ obs.known
    /\ \E c \in Conns :
           /\ pc[c] = "close"
           /\ RoomID[c] # ""
           /\ RoomID[c] \notin DOMAIN Rooms
    /\ Clients # {}

\* C4: each connection id is in the member set of at most one room
C4_AtMostOneRoom ==
    \A c \in Conns : Cardinality({r \in DOMAIN Rooms : c \in Rooms[r]}) <= 1

\* C8: the hub taking an unregister request of a connection that is not in
\* the connection map changes no map, no room, no queue and closes nothing
C8_UnknownUnregisterNoOp ==
    [][\A c \in Conns :
          (pc[c] = "unregister" /\ pc'[c] = "close" /\ c \notin Clients) =>
              /\ UNCHANGED <<Clients, Rooms, RoomID, Send, SendClosed, panicked>>
              /\ UNCHANGED <<hubPc, hubMsg, hubTodo>>]_vars

\* the hub has just taken the unregister request of an evicted connection
C8_Witness ==
    /\ obs.op = "unregister"
    /\ ~obs.known
    /\ \E c \in Conns : pc[c] = "close" /\ SendClosed[c]

\* the case of C9: the hub has taken a broadcast for a room without an entry
C9_Case ==
    /\ obs.op = "broadcast"
    /\ obs.msg.roomId # ""
    /\ obs.msg.roomId \notin DOMAIN obs.start.Rooms

\* C9: a broadcast to a room that has no entry is dropped: nothing is
\* enqueued, nobody is evicted, the registry is as it was, the message is kept
\* nowhere and the hub goes back to its select
C9_AbsentRoomDropped ==
    /\ C9_Case =>
           /\ hubPc = "fanout"
           /\ hubTodo = {}
           /\ obs.delivered = {} /\ obs.evicted = {}
           /\ Clients = obs.start.Clients
           /\ Rooms = obs.start.Rooms
           /\ SendClosed = obs.start.SendClosed
           /\ \A c \in Conns : Len(Send[c]) <= Len(obs.start.Send[c])
           /\ \A c \in Conns : pending[c] # obs.msg \/ pc[c] = "bcast"
           /\ Running => ENABLED FanoutDone
    /\ hubPc = "select" => hubMsg = NoMsg

\* a connection without a room has sent a message to a room nobody is in
C9_Witness == C9_Case /\ Clients # {} /\ obs.quiet

\* ------------------------------------------------------------------------
\* Claims about the frames of the card round
\* ------------------------------------------------------------------------

\* C11: a hold_hand frame, whatever the state of the round, leaves the draw
\* count of its sender at 2 and emits the re-entry into the deal (a deal_cards
\* or the cards_dealt it leads to) for the room
C11_HoldHandReenters ==
    \A c \in Conns :
        trail[c].last = "hold_hand" =>
            /\ trail[c].dcAfter = 2
            /\ trail[c].emit.type \in {"deal_cards", "cards_dealt"}

\* ------------------------------------------------------------------------
\* The drain specification: one connection, registered under its own
\* connection id, whose peer sends deal_cards and then start_wave, hold_hand,
\* deal_cards over and over
\* ------------------------------------------------------------------------

MaxDrainEvents == 31

ConnectDrain == HandleWebSocket("a1", "a1", "r1")

\* the frame the peer sends next
DrainFrame(c) ==
    IF trail[c].last = "deal_cards" THEN "start_wave"
    ELSE IF trail[c].last = "start_wave" THEN "hold_hand"
    ELSE "deal_cards"

Drain ==
    /\ nEvents < MaxDrainEvents
    /\ \E c \in Conns :
        \/ DrainFrame(c) = "deal_cards" /\ \E seed \in Seeds : RecvDealCards(c, "", seed)
        \/ DrainFrame(c) = "start_wave" /\ RecvStartWave(c, "")
        \/ DrainFrame(c) = "hold_hand" /\ \E fatal \in BOOLEAN : RecvHoldHand(c, fatal)

NextDrain == ConnectDrain \/ SocketRoom \/ HubStep \/ Drain \/ RoundDone

DrainSpec == Init /\ [][NextDrain]_vars

\* C12: after any sequence of deal_cards, hold_hand, hold_card, discard_card
\* and start_wave frames the hand of a connection holds no card or exactly
\* five: every redraw finds the cards it needs in the deck
C12_HandIsEmptyOrFive ==
    \A c \in Conns : Len(CurrentHand[c]) \in {0, 5}

\* C13: the draw count of a connection moves one step at a time, 0 to 1 to 2
\* to 3; it goes back only through a deal_cards at draw count 3 or more, which
\* leaves it at 1, and through start_wave, which leaves it at 0
C13_DrawCountSteps ==
    [][\A c \in Conns :
          DrawCount'[c] # DrawCount[c] =>
              \/ DrawCount'[c] = DrawCount[c] + 1 /\ DrawCount'[c] <= 3
              \/ /\ DrawCount[c] >= 3
                 /\ DrawCount'[c] = 1
                 /\ trail'[c].last = "deal_cards"
              \/ /\ DrawCount'[c] = 0
                 /\ trail'[c].last = "start_wave"]_vars

\* ------------------------------------------------------------------------
\* readPump: deal_cards on one connection while the hold_hand handler of
\* another connection writes the same DrawCount
\* ------------------------------------------------------------------------

\* the accesses of the deal_cards handler to c.DrawCount after it chose its
\* branch: 1 the read of the increment, 2 its write, 3 the next read (the
\* payload's drawCount, or the check before goldEarned is computed in a
\* redraw); in a redraw 4 the payload's drawCount and 5 the check that adds
\* goldEarned; 6 stands for the end of the handler
RaceAt(redraw) == IF redraw THEN 1..6 ELSE 1..3

\* what the handler makes of DrawCount m0 when the other goroutine's
\* client.DrawCount = 2 lands just before access k: the count left in
\* memory, the drawCount of the payload, and whether goldEarned is added
RacedCounts(m0, k) ==
    LET redraw == m0 = 1 \/ m0 = 2
        base == IF redraw THEN m0 ELSE 0
        read == IF k = 1 THEN 2 ELSE base
        m2 == read + 1
        m3 == IF k = 3 THEN 2 ELSE m2
        m4 == IF redraw /\ k = 4 THEN 2 ELSE m3
        m5 == IF redraw /\ k = 5 THEN 2 ELSE m4
        m6 == IF redraw /\ k = 6 THEN 2 ELSE m5
    IN [final |-> m6, shown |-> m4, gold |-> redraw /\ m5 >= 3]

\* connection c handles deal_cards while connection d, whose player id is
\* the connection id of c, handles hold_hand: d found c in the room and read
\* a DrawCount below 3 (the one c started with, or the 0 of c's reset), and
\* its write lands at access k of c's handler; both send on Hub.Broadcast
RecvDealCardsRaced(c, d, room, seed, k) ==
    /\ c # d
    /\ CanReadRound(c)
    /\ CanReadRound(d)
    /\ RoomID[d] \in DOMAIN Rooms
    /\ PlayerID[d] = ClientID(c)
    /\ c \in Rooms[RoomID[d]]
    /\ nEvents' = nEvents + 2
    /\ UNCHANGED arrived
    /\ LET msg == FillDefaults(c, [type |-> "deal_cards", payload |-> EmptyPayload,
                                   roomId |-> room, senderId |-> ""])
           redraw == DrawCount[c] = 1 \/ DrawCount[c] = 2
           heldCards == SelectSeq(CurrentHand[c], LAMBDA card : card.Held)
           discardCount == Len(CurrentHand[c]) - Len(heldCards)
           dealt == IF redraw
                    THEN DealCards(CurrentDeck[c], discardCount)
                    ELSE DealCards(ShuffleDeck(NewDeck, seed), 5)
           hand == IF redraw THEN heldCards \o dealt[1] ELSE dealt[1]
           counts == RacedCounts(DrawCount[c], k)
       IN /\ k \in RaceAt(redraw)
          /\ CurrentHand' = [CurrentHand EXCEPT ![c] = hand]
          /\ CurrentDeck' = [CurrentDeck EXCEPT ![c] = dealt[2]]
          /\ DrawCount' = [DrawCount EXCEPT ![c] = counts.final]
          /\ pending' = [pending EXCEPT
                            ![c] = CardsDealt(hand, counts.shown, msg.roomId, counts.gold),
                            ![d] = [type |-> "deal_cards", payload |-> EmptyPayload,
                                    roomId |-> RoomID[d], senderId |-> PlayerID[d]]]
          /\ trail' = [trail EXCEPT
                          ![c] = [prev |-> @.last, prevDc |-> @.dcBefore, last |-> "deal_cards",
                                  dcBefore |-> DrawCount[c], dcAfter |-> counts.final,
                                  emit |-> pending'[c]],
                          ![d] = [prev |-> @.last, prevDc |-> @.dcBefore, last |-> "hold_hand",
                                  dcBefore |-> DrawCount[d], dcAfter |-> DrawCount[d],
                                  emit |-> pending'[d]]]
    /\ pc' = [pc EXCEPT ![c] = "bcast", ![d] = "bcast"]
    /\ UNCHANGED <<regVars, idVars, chanVars, sock, wpc, hubPc, iterVars, mainVars,
                   WaveLevel, panicked, obs>>
    /\ UNCHANGED rule

\* ------------------------------------------------------------------------
\* The pair specification: connection a1 plays the card round in room r1
\* under the player id p1; connection a2 joins the room with the connection
\* id of a1 as its player id and sends hold_hand
\* ------------------------------------------------------------------------

MaxPairEvents == 3

ConnectPair ==
    \/ HandleWebSocket("a1", "p1", "r1")
    \/ HandleWebSocket("a2", "a1", "r1")

Pair ==
    /\ nEvents < MaxPairEvents
    /\ \/ \E seed \in Seeds : RecvDealCards("a1", "", seed)
       \/ \E fatal \in BOOLEAN : RecvHoldHand("a2", fatal)
       \/ /\ nEvents + 1 < MaxPairEvents
          /\ \E seed \in Seeds, k \in RaceAt(TRUE) :
                 RecvDealCardsRaced("a1", "a2", "", seed, k)

NextPair == ConnectPair \/ SocketRoom \/ HubStep \/ Pair

PairSpec == Init /\ [][NextPair]_vars

\* C14: between two deal_cards frames that follow each other on a connection
\* the draw count stays where the first one left it, so that from draw count
\* 0 three of them with no card held bring it to 1, 2 and 3, and a fourth
\* starts over: draw count 1 and five new cards from a freshly shuffled deck
\* of 52
C14_DealCardsSequence ==
    \A c \in Conns :
        (trail[c].prev = "deal_cards" /\ trail[c].last = "deal_cards") =>
            /\ trail[c].prevDc \in 0..2 =>
                   /\ trail[c].dcBefore = trail[c].prevDc + 1
                   /\ trail[c].dcAfter = IF trail[c].dcBefore < 3
                                         THEN trail[c].dcBefore + 1 ELSE 1
            /\ trail[c].dcBefore >= 3 =>
                   /\ trail[c].dcAfter = 1
                   /\ Len(CurrentHand[c]) = 5
                   /\ Len(CurrentDeck[c]) = 47
                   /\ \E seed \in Seeds :
                          CurrentHand[c] \o CurrentDeck[c] = ShuffleDeck(NewDeck, seed)

\* C15: a deal_cards frame at draw count 0 leaves a hand of exactly five
\* cards with values 2..14 and one of the four suits and a deck of the other
\* 47, and emits cards_dealt with drawCount 1 and maxDraws 3
C15_FirstDraw ==
    \A c \in Conns :
        (trail[c].last = "deal_cards" /\ trail[c].dcBefore = 0) =>
            /\ Len(CurrentHand[c]) = 5
            /\ \A i \in 1..Len(CurrentHand[c]) :
                   /\ CurrentHand[c][i].Value \in 2..14
                   /\ CurrentHand[c][i].Suit \in {"hearts", "diamonds", "clubs", "spades"}
            /\ Len(CurrentDeck[c]) = 47
            /\ {CurrentHand[c][i] : i \in 1..5} \cap
                   {CurrentDeck[c][i] : i \in 1..Len(CurrentDeck[c])} = {}
            /\ trail[c].emit.type = "cards_dealt"
            /\ trail[c].emit.payload.cards = CurrentHand[c]
            /\ trail[c].emit.payload.drawCount = 1
            /\ trail[c].emit.payload.maxDraws = 3

\* C16: the round state of a connection (draw count, hand, deck, wave level)
\* changes only in steps of its own inbound loop
C16_OwnLoopOnly ==
    [][\A c \in Conns :
          <<DrawCount'[c], CurrentHand'[c], CurrentDeck'[c], WaveLevel'[c]>>
              # <<DrawCount[c], CurrentHand[c], CurrentDeck[c], WaveLevel[c]>>
          => /\ pc[c] \in {"read", "postwave"}
             /\ pc'[c] # pc[c]]_vars

\* ------------------------------------------------------------------------
\* The frame specification: one connection of room r1 whose peer sends
\* deal_cards, hold_card, discard_card, frames of a type without a handler
\* and frames that are not JSON, with and without a room id and a sender id
\* ------------------------------------------------------------------------

MaxFrameEvents == 3

\* the roomId and the senderId a frame may carry: none, or one that is not
\* the connection's own
FrameRooms == {"", "r2"}

FrameSenders == {"", "p2"}

ConnectFrame == HandleWebSocket("a1", "p1", "r1")

Frame ==
    /\ nEvents < MaxFrameEvents
    /\ \E c \in Conns :
        \/ \E seed \in Seeds : RecvDealCards(c, "", seed)
        \/ \E r \in FrameRooms, s \in FrameSenders, id \in CardArgs(c), held \in BOOLEAN :
               RecvHoldCard(c, r, s, id, held)
        \/ \E held \in BOOLEAN : RecvHoldCardUndecoded(c, held)
        \/ \E r \in FrameRooms, s \in FrameSenders : RecvOther(c, "chat", r, s)
        \/ RecvMalformed(c)

NextFrame == ConnectFrame \/ SocketRoom \/ HubStep \/ Frame

FrameSpec == Init /\ [][NextFrame]_vars

\* the envelope a hold_card or discard_card frame arrives in
C17_CardFrame(r, s, id, held) ==
    [type |-> IF held THEN "hold_card" ELSE "discard_card",
     payload |-> [cardId |-> id], roomId |-> r, senderId |-> s]

\* the envelope a frame of a type without a handler arrives in
C17_OtherFrame(r, s) ==
    [type |-> "chat", payload |-> [text |-> "x"], roomId |-> r, senderId |-> s]

\* the inbound envelope with an empty room id replaced by the connection's
\* room id and an empty sender id by its player id
C17_Completed(c, m) ==
    [type |-> m.type, payload |-> m.payload,
     roomId |-> IF m.roomId = "" THEN RoomID[c] ELSE m.roomId,
     senderId |-> IF m.senderId = "" THEN PlayerID[c] ELSE m.senderId]

\* C17 (as stated): for hold_card, discard_card and every type without a
\* handler the envelope handed to the hub equals the inbound envelope in all
\* four fields, also when the inbound one had no roomId or senderId
C17_ForwardedUnchanged ==
    [][\A c \in Conns, r \in FrameRooms, s \in FrameSenders :
          /\ \A id \in CardArgs(c), held \in BOOLEAN :
                 RecvHoldCard(c, r, s, id, held) =>
                     pending'[c] = C17_CardFrame(r, s, id, held)
          /\ RecvOther(c, "chat", r, s) => pending'[c] = C17_OtherFrame(r, s)]_vars

\* C17 (amended): the envelope handed to the hub has the type and the payload
\* of the inbound envelope, and its roomId and senderId where it gave them;
\* a roomId it left out is the connection's room id, a senderId it left out
\* is the connection's player id; a hold_card or discard_card whose payload
\* does not decode hands nothing to the hub
C17_ForwardedWithDefaults ==
    [][\A c \in Conns, r \in FrameRooms, s \in FrameSenders :
          /\ \A id \in CardArgs(c), held \in BOOLEAN :
                 RecvHoldCard(c, r, s, id, held) =>
                     pending'[c] = C17_Completed(c, C17_CardFrame(r, s, id, held))
          /\ \A held \in BOOLEAN :
                 RecvHoldCardUndecoded(c, held) => pending'[c] = NoMsg /\ pc'[c] = "read"
          /\ RecvOther(c, "chat", r, s) =>
                 pending'[c] = C17_Completed(c, C17_OtherFrame(r, s))]_vars

\* a hold_card frame that named a sender and no room waits for the hub
C17_Witness ==
    \E c \in Conns :
        /\ pc[c] = "bcast"
        /\ pending[c].type = "hold_card"
        /\ pending[c].senderId = "p2"
        /\ pending[c].roomId = RoomID[c]
        /\ RoomID[c] # ""

\* connection c takes a hold_card or discard_card frame that names a card of
\* its hand
C18_Step(c) ==
    /\ pc[c] = "read"
    /\ pc'[c] = "bcast"
    /\ pending'[c].type \in {"hold_card", "discard_card"}
    /\ \E i \in 1..Len(CurrentHand[c]) : CurrentHand[c][i].ID = pending'[c].payload.cardId

\* the position in the hand of c of the card the frame names
C18_Named(c) ==
    CHOOSE i \in 1..Len(CurrentHand[c]) : CurrentHand[c][i].ID = pending'[c].payload.cardId

\* nothing but the held flag of the named card changes in the round state
C18_RestUnchanged(c) ==
    /\ Len(CurrentHand'[c]) = Len(CurrentHand[c])
    /\ \A j \in 1..Len(CurrentHand[c]) :
           /\ j # C18_Named(c) => CurrentHand'[c][j] = CurrentHand[c][j]
           /\ [CurrentHand'[c][j] EXCEPT !.Held = FALSE]
                  = [CurrentHand[c][j] EXCEPT !.Held = FALSE]
    /\ CurrentDeck'[c] = CurrentDeck[c]
    /\ DrawCount'[c] = DrawCount[c]
    /\ WaveLevel'[c] = WaveLevel[c]

\* C18 (as stated): a hold_card or discard_card frame that names a card of
\* the hand inverts the held flag of that card and changes nothing else of
\* the round state
C18_TogglesHeld ==
    [][\A c \in Conns :
          C18_Step(c) =>
              /\ CurrentHand'[c][C18_Named(c)].Held = ~CurrentHand[c][C18_Named(c)].Held
              /\ C18_RestUnchanged(c)]_vars

\* C18 (amended): a hold_card frame that names a card of the hand leaves the
\* held flag of that card set, a discard_card frame leaves it cleared,
\* whatever it was before; no other card's flag, the order of the hand, the
\* deck, the draw count and the wave level do not change
C18_SetsHeld ==
    [][\A c \in Conns :
          C18_Step(c) =>
              /\ CurrentHand'[c][C18_Named(c)].Held = (pending'[c].type = "hold_card")
              /\ C18_RestUnchanged(c)]_vars

\* a card of the hand was held and then discarded again
C18_Witness ==
    \E c \in Conns :
        /\ trail[c].prev = "hold_card"
        /\ trail[c].last = "discard_card"
        /\ trail[c].emit.type = "discard_card"
        /\ \E i \in 1..Len(CurrentHand[c]) :
               /\ CurrentHand[c][i].ID = trail[c].emit.payload.cardId
               /\ ~CurrentHand[c][i].Held

\* connection c takes a hold_card or discard_card frame that names no card
\* of its hand
C19_Step(c) ==
    /\ pc[c] = "read"
    /\ pc'[c] = "bcast"
    /\ pending'[c].type \in {"hold_card", "discard_card"}
    /\ \A i \in 1..Len(CurrentHand[c]) : CurrentHand[c][i].ID # pending'[c].payload.cardId

\* C19: a hold_card or discard_card frame whose card id is not in the
\* current hand, an empty hand included, leaves the whole round state of the
\* connection as it was
C19_UnknownCardIgnored ==
    [][\A c \in Conns :
          C19_Step(c) =>
              /\ CurrentHand'[c] = CurrentHand[c]
              /\ CurrentDeck'[c] = CurrentDeck[c]
              /\ DrawCount'[c] = DrawCount[c]
              /\ WaveLevel'[c] = WaveLevel[c]]_vars

\* a frame named a card that is not in a hand of five
C19_Witness ==
    \E c \in Conns :
        /\ trail[c].last \in {"hold_card", "discard_card"}
        /\ trail[c].emit.type = trail[c].last
        /\ Len(CurrentHand[c]) = 5
        /\ \A i \in 1..5 : CurrentHand[c][i].ID # trail[c].emit.payload.cardId

\* connection c reads a frame that does not decode as an envelope
C20_Step(c) ==
    /\ nEvents' = nEvents + 1
    /\ trail'[c] = [prev |-> trail[c].last, prevDc |-> trail[c].dcBefore,
                    last |-> "malformed", dcBefore |-> DrawCount[c],
                    dcAfter |-> DrawCount[c], emit |-> NoMsg]

\* C20: a frame that fails to decode as an envelope is discarded without
\* effect: the round state and the registry are unchanged, nothing is handed
\* to the hub or queued, the connection stays registered and its inbound loop
\* is ready for the next frame
C20_MalformedDiscarded ==
    [][\A c \in Conns :
          C20_Step(c) =>
              /\ UNCHANGED <<DrawCount, CurrentHand, CurrentDeck, WaveLevel>>
              /\ UNCHANGED <<Clients, Rooms, RoomID, PlayerID>>
              /\ UNCHANGED <<pending, Send, SendClosed>>
              /\ UNCHANGED <<hubPc, hubMsg, hubTodo, hubVictim, hubIterLive>>
              /\ UNCHANGED <<sock, wpc, panicked>>
              /\ pc[c] = "read"
              /\ pc' = pc]_vars

\* the frame after one that did not decode was handled as usual, on a
\* connection that is still registered
C20_Witness ==
    \E c \in Conns :
        /\ trail[c].prev = "malformed"
        /\ trail[c].last = "deal_cards"
        /\ trail[c].emit.type = "cards_dealt"
        /\ c \in Clients
        /\ RoomID[c] \in DOMAIN Rooms
        /\ c \in Rooms[RoomID[c]]

\* ------------------------------------------------------------------------
\* The failure specification: the shutdown specification, and a ReadMessage
\* on a connection that was closed returns its error
\* ------------------------------------------------------------------------

\* readPump's ReadMessage fails because the connection is closed
ReadClosed(c) == sock[c] = "closed" /\ ReadError(c)

FailFairness ==
    /\ LiveFairness
    /\ \A c \in HubConns : WF_vars(ReadClosed(c))

FailSpec == Init /\ [][NextLive]_vars /\ FailFairness

\* C21: once the outbound loop of a connection has returned (a failed write
\* to the socket), or its inbound loop has (a failed read), the connection
\* is eventually in neither the connection map nor a room, as long as the
\* hub loop keeps running
C21_FailureUnregisters ==
    \A c \in HubConns :
        (wpc[c] = "done" \/ pc[c] = "unregister") ~>
            \/ c \notin Clients /\ \A r \in DOMAIN Rooms : c \notin Rooms[r]
            \/ hubPc = "stopped"
            \/ ~Running

\* the hub has just carried out the unregistration of a registered
\* connection whose outbound loop had returned on a failed write, with
\* messages still in its queue
C21_Witness ==
    \E c \in HubConns :
        /\ wpc[c] = "done"
        /\ pc[c] = "close"
        /\ obs = [op |-> "unregister", known |-> TRUE]
        /\ c \notin Clients
        /\ Send[c] # << >>

\* ------------------------------------------------------------------------
\* The order specification: two connections of room r1 under different
\* player ids whose peers number the frames they send, in the order in which
\* the frames are read
\* ------------------------------------------------------------------------

MaxOrderEvents == 3

\* the type of the n-th frame
SeqType == <<"m1", "m2", "m3", "m4">>

ConnectOrder ==
    \/ HandleWebSocket("a1", "p1", "r1")
    \/ HandleWebSocket("a2", "p2", "r1")

Order ==
    /\ nEvents < MaxOrderEvents
    /\ \E c \in Conns : RecvOther(c, SeqType[nEvents + 1], "", "")

NextOrder == ConnectOrder \/ SocketRoom \/ HubStep \/ Order

OrderSpec == Init /\ [][NextOrder]_vars

C23_WaveLevelSteps ==
    [][\A c \in Conns :
          /\ WaveLevel'[c] >= WaveLevel[c]
          /\ WaveLevel'[c] # WaveLevel[c] =>
                 /\ WaveLevel'[c] = WaveLevel[c] + 1
                 /\ pc[c] = "read"
                 /\ pc'[c] = "bcast_wave"
                 /\ trail'[c].last = "start_wave"
          /\ (pc[c] = "read" /\ pc'[c] = "bcast_wave") =>
                 /\ WaveLevel'[c] = WaveLevel[c] + 1
                 /\ pending'[c].type = "wave_started"
                 /\ pending'[c].payload.wave.Level = WaveLevel'[c]
                 /\ pending'[c].payload.wave.Round = WaveLevel'[c]]_vars

\* a connection has handled two start_wave frames and sends the second wave
C23_Witness ==
    \E c \in Conns :
        /\ pc[c] = "bcast_wave"
        /\ trail[c].prev = "start_wave"
        /\ WaveLevel[c] = 2
        /\ pending[c].payload.wave.Level = 2

\* ------------------------------------------------------------------------
\* The tower specification: one connection of room r1 whose peer places and
\* upgrades towers
\* ------------------------------------------------------------------------

MaxTowerEvents == 3

\* the tower types a frame may name: the four the rules know and one they do
\* not
TowerTypeArgs == {"basic", "splash", "sniper", "slow", "laser"}

\* the places a frame may name: the corner and the place the upgrade handler
\* puts its tower at
Places == {<<0, 0>>, <<300, 300>>}

\* the ids the clock may give a tower, and a frame may name
TowerIds == {"t1", "t2"}

ConnectTower == HandleWebSocket("a1", "p1", "r1")

Tower ==
    /\ nEvents < MaxTowerEvents
    /\ \E c \in Conns :
        \/ \E t \in TowerTypeArgs, at \in Places :
               RecvPlaceTower(c, "", "", "t1", t, at[1], at[2])
        \/ \E id \in TowerIds : RecvUpgradeTower(c, "", "", id)
        \/ \E t \in {"place_tower", "upgrade_tower"} : RecvTowerUndecoded(c, t)

NextTower == ConnectTower \/ SocketRoom \/ HubStep \/ Tower

TowerSpec == Init /\ [][NextTower]_vars

\* C24: a place_tower frame with towerType "sniper" yields a tower_placed
\* tower of level 1 with range 200, damage 30, attack speed 0.5 and cost 150,
\* at whatever place the frame names; the constructor of the game rules
\* gives a sniper tower the same stats
C24_SniperStats ==
    /\ \A c \in Conns :
           (/\ trail[c].last = "place_tower"
            /\ trail[c].emit # NoMsg
            /\ trail[c].emit.payload.tower.Type = "sniper") =>
               /\ trail[c].emit.type = "tower_placed"
               /\ trail[c].emit.payload.tower.Level = 1
               /\ trail[c].emit.payload.tower.Range = 200000
               /\ trail[c].emit.payload.tower.Damage = 30
               /\ trail[c].emit.payload.tower.Speed = 500
               /\ trail[c].emit.payload.tower.Cost = 150
               /\ <<trail[c].emit.payload.tower.X, trail[c].emit.payload.tower.Y>> \in Places
    /\ \A at \in Places :
           LET tower == CreateTower("t1", "p1", "sniper", at[1], at[2])
           IN <<tower.Level, tower.Range, tower.Damage, tower.Speed, tower.Cost>>
                  = <<1, 200000, 30, 500, 150>>

\* a sniper tower was placed away from the corner
C24_Witness ==
    \E c \in Conns :
        /\ trail[c].last = "place_tower"
        /\ trail[c].emit.type = "tower_placed"
        /\ trail[c].emit.payload.tower.Type = "sniper"
        /\ trail[c].emit.payload.tower.X = 300
        /\ trail[c].emit.payload.tower.Range = 200000

\* models.GetEnemyTypes: health, speed (in tenths), damage and gold by type
GetEnemyTypes ==
    "basic" :> [Type |-> "basic", Health |-> 150, Speed10 |-> 10, Damage |-> 2, Gold |-> 6]
    @@ "fast" :> [Type |-> "fast", Health |-> 120, Speed10 |-> 17, Damage |-> 2, Gold |-> 9]
    @@ "tank" :> [Type |-> "tank", Health |-> 300, Speed10 |-> 8, Damage |-> 3, Gold |-> 12]
    @@ "boss" :> [Type |-> "boss", Health |-> 800, Speed10 |-> 6, Damage |-> 5, Gold |-> 25]

\* the type probabilities of a round, in hundredths
enemyProbs(round) ==
    IF round >= 10 THEN [basic |-> 40, fast |-> 30, tank |-> 20, boss |-> 10]
    ELSE IF round >= 7 THEN [basic |-> 50, fast |-> 30, tank |-> 15, boss |-> 5]
    ELSE IF round >= 4 THEN [basic |-> 60, fast |-> 30, tank |-> 10, boss |-> 0]
    ELSE IF round >= 2 THEN [basic |-> 70, fast |-> 30, tank |-> 0, boss |-> 0]
    ELSE [basic |-> 100, fast |-> 0, tank |-> 0, boss |-> 0]

\* mutant: the first round already draws from the distribution of round 2
rolledType_Early(round, roll) ==
    LET p == enemyProbs(round + 1)
    IN IF roll < p.boss THEN "boss"
       ELSE IF roll < p.boss + p.tank THEN "tank"
       ELSE IF roll < p.boss + p.tank + p.fast THEN "fast"
       ELSE "basic"

\* the switch on a roll (in hundredths); from round 10 on the float64 sums
\* 0.1 + 0.2 and 0.1 + 0.2 + 0.3 lie just above 0.3 and 0.6, so a roll of
\* exactly that value still falls below them
rolledType(round, roll) ==
    LET p == enemyProbs(round)
        above == round >= 10
    IN IF roll < p.boss THEN "boss"
       ELSE IF roll < p.boss + p.tank \/ (above /\ roll = p.boss + p.tank) THEN "tank"
       ELSE IF roll < p.boss + p.tank + p.fast
               \/ (above /\ roll = p.boss + p.tank + p.fast) THEN "fast"
       ELSE "basic"

\* generateEnemies(round), with rolls the values r.Float64() returns, in
\* hundredths, one per enemy; int() truncates the health, which the float64
\* product gives exactly up to round 11; the id, read from the clock, is
\* left out
generateEnemies(round, rolls) ==
    LET baseEnemies == 5 + round * 3
        healthTenths == 10 + (round - 1) * 2
    IN [i \in 1..baseEnemies |->
           LET type == rolledType(round, rolls[i])
               health == (GetEnemyTypes[type].Health * healthTenths) \div 10
           IN [Type |-> type, Health |-> health, MaxHealth |-> health,
               Speed10 |-> GetEnemyTypes[type].Speed10,
               Damage |-> GetEnemyTypes[type].Damage,
               Gold |-> GetEnemyTypes[type].Gold,
               X |-> 0, Y |-> 0, PathIndex |-> 0, Active |-> TRUE]]

\* ------------------------------------------------------------------------
\* The game rules called on their own (internal/game): a behaviour is one
\* call of one function, recorded in rule, and for a tower the upgrades that
\* follow; no connection exists
\* ------------------------------------------------------------------------

progVars == <<Clients, Rooms, RoomID, PlayerID, Send, SendClosed, sock, pc, wpc, pending,
              hubPc, hubMsg, hubTodo, hubVictim, hubIterLive, mainPc, atCancel,
              DrawCount, CurrentHand, CurrentDeck, WaveLevel, trail, panicked, nEvents,
              arrived, obs>>

\* the highest tower level the calls reach
MaxTowerLevel == 3

\* the rounds a wave is generated for
GenRounds == {1, 2}

\* the rolls (in hundredths) the random source may return
RollValues == {0, 99}

RulePlayers == {"p1", "p2"}

\* CreateTower(playerID, towerType, x, y); the id comes from the clock
CallCreateTower ==
    /\ rule = NoRule
    /\ \E id \in TowerIds, p \in RulePlayers, t \in TowerTypeArgs, at \in Places :
           /\ rule' = [fn |-> "CreateTower",
                       in |-> [playerID |-> p, towerType |-> t, x |-> at[1], y |-> at[2]],
                       out |-> [tower |-> CreateTower(id, p, t, at[1], at[2])]]
           /\ UNCHANGED progVars

\* UpgradeTower(tower) on the tower the last call returned
CallUpgradeTower ==
    /\ rule.fn \in {"CreateTower", "UpgradeTower"}
    /\ rule.out.tower.Level < MaxTowerLevel
    /\ rule' = [fn |-> "UpgradeTower",
                in |-> [tower |-> rule.out.tower],
                out |-> [tower |-> UpgradeTower(rule.out.tower)]]
    /\ UNCHANGED progVars

\* the cards hands are drawn from: enough for every rank, the straight from
\* the ace down to the two included
HandDeckIds ==
    {"hearts-2", "hearts-3", "hearts-4", "hearts-5",
     "hearts-10", "hearts-J", "hearts-Q", "hearts-K", "hearts-A",
     "spades-K", "spades-A", "clubs-A", "diamonds-A"}

HandDeck == SelectSeq(NewDeck, LAMBDA card : card.ID \in HandDeckIds)

\* the cards of a hand in the order of the deck, and in the opposite order
InDeckOrder(cards) ==
    SelectSeq(HandDeck, LAMBDA card : \E i \in 1..Len(cards) : cards[i] = card)

Reversed(cards) == [i \in 1..Len(cards) |-> cards[Len(cards) + 1 - i]]

\* EvaluateHand(cards) on five different cards in any order
CallEvaluateHand ==
    /\ rule = NoRule
    /\ \E at \in [1..5 -> 1..Len(HandDeck)] :
           /\ \A i, j \in 1..5 : i # j => at[i] # at[j]
           /\ LET cards == [i \in 1..5 |-> HandDeck[at[i]]]
              IN rule' = [fn |-> "EvaluateHand",
                          in |-> [cards |-> cards],
                          out |-> [rank |-> EvaluateHand(cards)]]
           /\ UNCHANGED progVars

\* the number of times a deck is shuffled
MaxShuffles == 3

\* NewDeck()
CallNewDeck ==
    /\ rule = NoRule
    /\ rule' = [fn |-> "NewDeck", in |-> [nth |-> 0], out |-> [deck |-> NewDeck]]
    /\ UNCHANGED progVars

\* ShuffleDeck(deck) on the deck the last call returned
CallShuffleDeck ==
    /\ rule.fn \in {"NewDeck", "ShuffleDeck"}
    /\ rule.in.nth < MaxShuffles
    /\ \E seed \in Seeds :
           rule' = [fn |-> "ShuffleDeck",
                    in |-> [nth |-> rule.in.nth + 1, deck |-> rule.out.deck, seed |-> seed],
                    out |-> [deck |-> ShuffleDeck(rule.out.deck, seed)]]
    /\ UNCHANGED progVars

\* generateEnemies(round) with one roll per enemy
CallGenerateEnemies ==
    /\ rule = NoRule
    /\ \E round \in GenRounds :
           \E rolls \in [1..(5 + round * 3) -> RollValues] :
               /\ rule' = [fn |-> "generateEnemies",
                           in |-> [round |-> round, rolls |-> rolls],
                           out |-> [enemies |-> generateEnemies(round, rolls)]]
               /\ UNCHANGED progVars

NextRule ==
    \/ CallCreateTower
    \/ CallUpgradeTower
    \/ CallGenerateEnemies
    \/ CallNewDeck
    \/ CallShuffleDeck

RuleSpec == Init /\ [][NextRule]_vars

\* the evaluation of hands on its own
NextHand == CallEvaluateHand

HandSpec == Init /\ [][NextHand]_vars

\* C25: the stats of a tower type outside basic, splash, sniper and slow are
\* those of the basic tower (range 100, damage 10, speed 1.0, cost 50), in
\* the place_tower handler and in the tower constructor of the game rules
C25_UnknownTypeIsBasic ==
    /\ \A c \in Conns :
           (/\ trail[c].last = "place_tower"
            /\ trail[c].emit # NoMsg
            /\ trail[c].emit.payload.tower.Type \notin DOMAIN towerCosts) =>
               LET tower == trail[c].emit.payload.tower
               IN <<tower.Range, tower.Damage, tower.Speed, tower.Cost>>
                      = <<100000, 10, 1000, 50>>
    /\ (rule.fn = "CreateTower" /\ rule.in.towerType \notin DOMAIN towerCosts) =>
           LET tower == rule.out.tower
           IN <<tower.Range, tower.Damage, tower.Speed, tower.Cost>>
                  = <<100000, 10, 1000, 50>>

\* the handler's half of C25 on its own: a placed tower of an unknown type
\* has the stats of the basic tower
C25_HandlerDefault ==
    \A c \in Conns :
        (/\ trail[c].last = "place_tower"
         /\ trail[c].emit # NoMsg
         /\ trail[c].emit.payload.tower.Type \notin DOMAIN towerCosts) =>
            LET tower == trail[c].emit.payload.tower
            IN <<tower.Range, tower.Damage, tower.Speed, tower.Cost>>
                   = <<100000, 10, 1000, 50>>

\* a tower of an unknown type was placed by the handler
C25_HandlerCase ==
    \E c \in Conns :
        /\ trail[c].last = "place_tower"
        /\ trail[c].emit # NoMsg
        /\ trail[c].emit.payload.tower.Type = "laser"

\* connection c handles an upgrade_tower frame naming the tower its previous
\* frame placed or upgraded
C26_Step(c) ==
    /\ pc[c] = "read"
    /\ pc'[c] = "bcast"
    /\ pending'[c].type = "tower_upgraded"
    /\ trail[c].emit # NoMsg
    /\ trail[c].emit.type \in {"tower_placed", "tower_upgraded"}
    /\ trail[c].emit.payload.tower.ID = pending'[c].payload.tower.ID

\* C26: upgrade_tower emits tower_upgraded with the stats of the level right
\* above the tower's current level, keeping the tower's type and position
\* (so a second upgrade of the same tower gives level 3)
C26_UpgradeIsNextLevel ==
    [][\A c \in Conns :
          C26_Step(c) =>
              LET old == trail[c].emit.payload.tower
                  new == pending'[c].payload.tower
                  up  == UpgradeTower(old)
              IN /\ new.Type = old.Type
                 /\ <<new.X, new.Y>> = <<old.X, old.Y>>
                 /\ new.Level = old.Level + 1
                 /\ <<new.Range, new.Damage, new.Speed, new.Cost>>
                        = <<up.Range, up.Damage, up.Speed, up.Cost>>]_vars

\* C27: generateEnemies for round 1 returns exactly 8 enemies (5 + 3 * 1),
\* all of type basic whatever the rolls, each with the base health of its
\* type (the health multiplier is 1.0)
C27_RoundOneWave ==
    (rule.fn = "generateEnemies" /\ rule.in.round = 1) =>
        /\ Len(rule.out.enemies) = 8
        /\ \A i \in 1..Len(rule.out.enemies) :
               /\ rule.out.enemies[i].Type = "basic"
               /\ rule.out.enemies[i].Health = GetEnemyTypes[rule.out.enemies[i].Type].Health
               /\ rule.out.enemies[i].Health = 150

\* round 1 was generated with a roll that yields a fast enemy in round 2
C27_Witness ==
    /\ rule.fn = "generateEnemies"
    /\ rule.in.round = 1
    /\ rule.in.rolls[1] = 0
    /\ rule.in.rolls[8] = 99
    /\ Len(rule.out.enemies) = 8
    /\ rolledType(2, rule.in.rolls[1]) = "fast"

\* C28: EvaluateHand returns the same rank, type and value, for every order
\* of the same five cards: whatever the order of a call, its rank is the one
\* of the same cards in deck order and in the opposite order
C28_OrderIrrelevant ==
    rule.fn = "EvaluateHand" =>
        LET sameCards == InDeckOrder(rule.in.cards)
        IN /\ Len(sameCards) = 5
           /\ rule.out.rank.Type = EvaluateHand(sameCards).Type
           /\ rule.out.rank.Value = EvaluateHand(sameCards).Value
           /\ rule.out.rank.Type = EvaluateHand(Reversed(sameCards)).Type
           /\ rule.out.rank.Value = EvaluateHand(Reversed(sameCards)).Value

\* the straight from the ace down to the two, dealt out of order, was evaluated
C28_Witness ==
    /\ rule.fn = "EvaluateHand"
    /\ [i \in 1..5 |-> rule.in.cards[i].Value] = <<3, 14, 5, 2, 4>>
    /\ rule.in.cards # InDeckOrder(rule.in.cards)
    /\ rule.out.rank.Type = "straight"

\* C29: NewDeck returns 52 cards with pairwise distinct ids, one for each
\* pair of suit and rank, the 13 cards of a suit having 13 distinct values
\* that are exactly 2..14; ShuffleDeck returns the cards it was given, each
\* once, none added, removed or duplicated
C29_DeckAndShuffle ==
    /\ rule.fn = "NewDeck" =>
           LET deck == rule.out.deck
               ofSuit(suit) == {i \in 1..Len(deck) : deck[i].Suit = suit}
           IN /\ Len(deck) = 52
              /\ \A i, j \in 1..Len(deck) : i # j => deck[i].ID # deck[j].ID
              /\ \A si \in 1..Len(suits), ri \in 1..Len(ranks) :
                     Cardinality({i \in 1..Len(deck) :
                                     /\ deck[i].Suit = suits[si]
                                     /\ deck[i].Rank = ranks[ri]}) = 1
              /\ \A si \in 1..Len(suits) :
                     /\ Cardinality(ofSuit(suits[si])) = 13
                     /\ \A i, j \in ofSuit(suits[si]) : i # j => deck[i].Value # deck[j].Value
                     /\ {deck[i].Value : i \in ofSuit(suits[si])} = 2..14
    /\ rule.fn = "ShuffleDeck" =>
           LET before == rule.in.deck
               after == rule.out.deck
           IN /\ Len(after) = Len(before)
              /\ \A i \in 1..Len(before) :
                     Cardinality({j \in 1..Len(after) : after[j] = before[i]}) = 1

\* a deck already out of order was shuffled into yet another order
C29_Witness ==
    /\ rule.fn = "ShuffleDeck"
    /\ rule.in.nth = 2
    /\ rule.in.deck # NewDeck
    /\ rule.out.deck # rule.in.deck
    /\ rule.out.deck # NewDeck
    /\ Len(rule.out.deck) = 52

\* C30: the loop of Hub.Run is the only actor that touches the connection map
\* and the room index: every step that changes Hub.Clients or Hub.Rooms is a
\* step of that loop (JoinRoom and LeaveRoom would only hand it a request)
C30_OnlyHubTouchesMaps ==
    [][(Clients' # Clients \/ Rooms' # Rooms) => HubStep]_vars

\* C31: the round state of a connection already has its value after the
\* transition when the transition's emission is handed to the hub: while a
\* cards_dealt waits on Hub.Broadcast the draw count and the hand are the
\* ones it reports, and while a wave_started waits there the wave level is
\* the one it reports and the draw count is back at 0
C31_StateBeforeEmission ==
    \A c \in Conns :
        /\ (pc[c] = "bcast" /\ pending[c].type = "cards_dealt") =>
               /\ DrawCount[c] = pending[c].payload.drawCount
               /\ CurrentHand[c] = pending[c].payload.cards
        /\ (pc[c] = "bcast_wave" /\ pending[c].type = "wave_started") =>
               /\ WaveLevel[c] = pending[c].payload.wave.Level
               /\ DrawCount[c] = 0

\* connection c handles a deal_cards frame at draw count 1 or 2
C32_Step(c) ==
    /\ pc[c] = "read"
    /\ pc'[c] = "bcast"
    /\ pending'[c].type = "cards_dealt"
    /\ DrawCount[c] \in {1, 2}

\* C32: a deal_cards handled at draw count 1 or 2 leaves a hand made of the
\* cards held before, in their order, followed by the first 5 - (number
\* held) cards of the stored deck, takes exactly those cards off the front
\* of the stored deck and raises the draw count by exactly 1
C32_Redraw ==
    [][\A c \in Conns :
          C32_Step(c) =>
              LET heldCards == SelectSeq(CurrentHand[c], LAMBDA card : card.Held)
                  n == 5 - Len(heldCards)
              IN /\ n <= Len(CurrentDeck[c])
                 /\ CurrentHand'[c] = heldCards \o SubSeq(CurrentDeck[c], 1, n)
                 /\ CurrentDeck'[c] = SubSeq(CurrentDeck[c], n + 1, Len(CurrentDeck[c]))
                 /\ DrawCount'[c] = DrawCount[c] + 1]_vars

\* C32 for a redraw that starts from a hand of five cards
C32_RedrawOfFive ==
    [][\A c \in Conns :
          (C32_Step(c) /\ Len(CurrentHand[c]) = 5) =>
              LET heldCards == SelectSeq(CurrentHand[c], LAMBDA card : card.Held)
                  n == 5 - Len(heldCards)
              IN /\ n <= Len(CurrentDeck[c])
                 /\ CurrentHand'[c] = heldCards \o SubSeq(CurrentDeck[c], 1, n)
                 /\ CurrentDeck'[c] = SubSeq(CurrentDeck[c], n + 1, Len(CurrentDeck[c]))
                 /\ DrawCount'[c] = DrawCount[c] + 1]_vars

\* the gold of a cards_dealt payload is there exactly at draw count 3 and is
\* the table value of the rank of the hand
C33_GoldOfRank(payload) ==
    /\ ("goldEarned" \in DOMAIN payload) <=> (payload.drawCount = 3)
    /\ ("goldEarned" \in DOMAIN payload) =>
           /\ payload.handRank.Value \in DOMAIN goldValues
           /\ payload.goldEarned = goldValues[payload.handRank.Value]
    /\ \A v, w \in DOMAIN goldValues : v <= w => goldValues[v] <= goldValues[w]

\* C33: a cards_dealt emission carries goldEarned if and only if the draw
\* count it reports is 3; the amount is the table value of the rank of the
\* final hand (10, 20, 30, 50, 80, 100, 150, 200, 300, 500 for the values
\* 1..10), which does not decrease with the rank value, and it is computed
\* from a hand of five cards only
C33_GoldOnFinalDraw ==
    \A c \in Conns :
        pending[c].type = "cards_dealt" =>
            /\ C33_GoldOfRank(pending[c].payload)
            /\ ("goldEarned" \in DOMAIN pending[c].payload) =>
                   Len(pending[c].payload.cards) = 5

\* C33 without its last part: when the gold is there and what it amounts to
C33_GoldAmount ==
    \A c \in Conns :
        pending[c].type = "cards_dealt" => C33_GoldOfRank(pending[c].payload)

\* the number of enemies of a wave that are bosses, or that are not
C34_Count(enemies, boss) ==
    Cardinality({i \in 1..Len(enemies) : (enemies[i].Type = "boss") = boss})

\* C34: the wave of a wave_started emission has a level L >= 1, exactly one
\* boss when L is a multiple of 5 and none otherwise, more enemies that are
\* no boss than the wave of level L - 1, every enemy at the first point of
\* the path, and a path whose last point is its first
C34_WaveShape ==
    \A c \in Conns :
        pending[c].type = "wave_started" =>
            LET wave == pending[c].payload.wave
                L == wave.Level
            IN /\ L >= 1
               /\ L = WaveLevel[c]
               /\ C34_Count(wave.Enemies, TRUE) = IF L % 5 = 0 THEN 1 ELSE 0
               /\ C34_Count(wave.Enemies, FALSE)
                      > C34_Count(waveEnemies(L - 1), FALSE)
               /\ \A i \in 1..Len(wave.Enemies) :
                      /\ wave.Enemies[i].X = wave.Path[1].X
                      /\ wave.Enemies[i].Y = wave.Path[1].Y
                      /\ wave.Enemies[i].PathIndex = 0
               /\ wave.Path[Len(wave.Path)] = wave.Path[1]

\* the wave of level 10, with its boss, is being sent
C34_Witness ==
    \E c \in Conns :
        /\ pc[c] = "bcast_wave"
        /\ pending[c].type = "wave_started"
        /\ pending[c].payload.wave.Level = 10
        /\ Len(pending[c].payload.wave.Enemies) = 26
        /\ pending[c].payload.wave.Enemies[26].Type = "boss"

\* C35: every member of every room is a connection that is in the connection
\* map, whose recorded room id is that room and whose outbound queue is
\* open; so a connection unregistered or evicted is listed by no room
C35_MembersAreLive ==
    (hubPc \in {"select", "stopped"}) =>
        \A r \in DOMAIN Rooms :
            \A c \in Rooms[r] :
                /\ c \in Clients
                /\ RoomID[c] = r
                /\ ~SendClosed[c]

\* ------------------------------------------------------------------------
\* The hub with a remote address that connects again: a1 joins room r1, and
\* once the server has closed its socket b1 arrives from the same address
\* ------------------------------------------------------------------------

\* inbound frames read over both connections
MaxReconnectEvents == 2

ConnectReconnect ==
    \/ HandleWebSocket("a1", "p1", "r1")
    \/ \E r \in RoomIds : HandleWebSocket("b1", "p1", r)

ReconnectTraffic ==
    /\ nEvents < MaxReconnectEvents
    /\ \E c \in Conns : RecvOther(c, "chat", "", "")

NextReconnect == ConnectReconnect \/ SocketRoom \/ HubStep \/ ReconnectTraffic

ReconnectSpec == Init /\ [][NextReconnect]_vars

\* the hub closes the queue of connection c: in its unregister case, or in
\* the default branch of a fan-out's send
C36_Closes(c) ==
    \/ /\ hubPc = "select"
       /\ pc[c] = "unregister"
       /\ pc'[c] = "close"
       /\ SameKey(Clients, c) # {}
    \/ /\ hubPc = "fanout"
       /\ c \in hubTodo
       /\ c \notin hubTodo'
       /\ Len(Send[c]) >= SendCap

\* the hub sends on the queue of connection c
C36_Sends(c) ==
    /\ hubPc = "fanout"
    /\ c \in hubTodo
    /\ c \notin hubTodo'

\* C36: the queue of a connection is closed at most once and the hub never
\* sends on a queue that is closed: no step closes or sends on the queue of
\* a connection whose queue is closed already, whatever the order of
\* evictions, unregistrations, registrations from an address seen before
\* and broadcasts
C36_NoUseAfterClose ==
    [][\A c \in Conns : SendClosed[c] => ~(C36_Closes(c) \/ C36_Sends(c))]_vars

\* ------------------------------------------------------------------------
\* Two rooms: a1, in room r1 or in no room, sends the frames the server
\* answers; a2 listens in room r2
\* ------------------------------------------------------------------------

\* inbound frames read from a1
MaxScopeEvents == 2

ConnectScope ==
    \/ \E r \in {"r1", NoRoom} : HandleWebSocket("a1", "p1", r)
    \/ HandleWebSocket("a2", "p2", "r2")

Scope ==
    /\ nEvents < MaxScopeEvents
    /\ \E room \in FrameRooms :
        \/ \E seed \in Seeds : RecvDealCards("a1", room, seed)
        \/ RecvStartWave("a1", room)
        \/ RecvPlaceTower("a1", room, "", "t1", "basic", 0, 0)
        \/ RecvUpgradeTower("a1", room, "", "t1")

NextScope == ConnectScope \/ SocketRoom \/ HubStep \/ Scope \/ RoundDone

ScopeSpec == Init /\ [][NextScope]_vars

\* the messages the server produces for a connection
ServerEmissions == {"cards_dealt", "wave_started", "tower_placed", "tower_upgraded"}

\* the hub puts the server emission it is fanning out into the queue of d
C37_Enqueued(d) ==
    /\ hubPc = "fanout"
    /\ hubMsg.type \in ServerEmissions
    /\ Len(Send'[d]) = Len(Send[d]) + 1

\* C37: a server emission produced for a connection (here a1, the only one
\* that sends frames) is put only into the queues of members of that
\* connection's room: into no queue of a member of another room, also when
\* the connection has no room or its frame names another room
C37_OwnRoomOnly ==
    [][\A d \in Conns :
          C37_Enqueued(d) =>
              \/ d = "a1"
              \/ RoomID["a1"] # NoRoom /\ RoomID[d] = RoomID["a1"]]_vars

\* ------------------------------------------------------------------------
\* The play specification: a1 plays the card round in room r1 without naming
\* a room in its frames, a2 listens in the same room, the signal may cancel
\* the context; the scheduling is that of the shutdown specification
\* ------------------------------------------------------------------------

\* inbound frames read from a1
MaxPlayEvents == 2

Play ==
    /\ nEvents < MaxPlayEvents
    /\ \/ \E seed \in Seeds : RecvDealCards("a1", "", seed)
       \/ RecvStartWave("a1", "")

NextPlay == ConnectLive \/ SocketRoom \/ HubStep \/ Play \/ RoundDone \/ Shutdown

PlaySpec == Init /\ [][NextPlay]_vars /\ LiveFairness

\* the readPump of c is blocked handing the emission of a deal_cards or
\* start_wave frame that named no room to the hub
C38_Emitted(c) ==
    /\ pc[c] \in {"bcast", "bcast_wave"}
    /\ pending[c].type \in {"cards_dealt", "wave_started"}
    /\ RoomID[c] # NoRoom
    /\ pending[c].roomId = RoomID[c]

\* the hub's fan-out of that emission has put it into the queue of c
C38_Enqueued(c) ==
    /\ obs.op = "broadcast"
    /\ obs.msg.type \in {"cards_dealt", "wave_started"}
    /\ obs.msg = trail[c].emit
    /\ c \in obs.delivered

CardIds(cards) == {cards[i].ID : i \in DOMAIN cards}

\* the step stores a freshly shuffled deck less its first five cards: a first
\* draw, which begins a round
C39_FirstDraw(c) ==
    /\ CurrentDeck'[c] # CurrentDeck[c]
    /\ Len(CurrentDeck'[c]) = Len(NewDeck) - 5

\* C39: in every round state of a connection the cards of the hand have
\* pairwise distinct ids, so have the cards of the stored deck, and no id is
\* in both; within a round the hand takes cards from the stored deck only and
\* the deck takes none, so a discarded card, which is in neither, never comes
\* back to the hand
C39_CardsDistinct ==
    /\ [](\A c \in Conns :
             /\ Cardinality(CardIds(CurrentHand[c])) = Len(CurrentHand[c])
             /\ Cardinality(CardIds(CurrentDeck[c])) = Len(CurrentDeck[c])
             /\ CardIds(CurrentHand[c]) \cap CardIds(CurrentDeck[c]) = {})
    /\ [][\A c \in Conns :
             ~C39_FirstDraw(c) =>
                 /\ CardIds(CurrentDeck'[c]) \subseteq CardIds(CurrentDeck[c])
                 /\ CardIds(CurrentHand'[c]) \subseteq
                        CardIds(CurrentHand[c]) \cup CardIds(CurrentDeck[c])
                 /\ (CardIds(CurrentHand[c]) \ CardIds(CurrentHand'[c]))
                        \cap CardIds(CurrentDeck'[c]) = {}]_vars

\* a second draw kept the held first card and replaced the four others
C39_Witness ==
    /\ DrawCount["a1"] = 2
    /\ trail["a1"].last = "deal_cards"
    /\ Len(CurrentHand["a1"]) = 5
    /\ CurrentHand["a1"][1].Held
    /\ Len(CurrentDeck["a1"]) = Len(NewDeck) - 9

\* ------------------------------------------------------------------------
\* The redraw of deal_cards against the game rules' DrawCards
\* ------------------------------------------------------------------------

\* DrawCards: <<newHand, deck>>; the held cards, as many cards from the deck
\* as five lack, and every Held flag reset
DrawCards(hand, deck) ==
    LET kept == SelectSeq(hand, LAMBDA card : card.Held)
        cardsNeeded == 5 - Len(kept)
        dealt == IF cardsNeeded > 0 THEN DealCards(deck, cardsNeeded) ELSE <<<< >>, deck>>
        newHand == kept \o dealt[1]
    IN <<[i \in 1..Len(newHand) |-> [newHand[i] EXCEPT !.Held = FALSE]], dealt[2]>>

\* C40: the redraw of a deal_cards handled at draw count 1 or 2 stores what
\* DrawCards returns for the stored hand and deck: the same cards in the same
\* order with the same (cleared) held flags, and the same remaining deck
C40_RedrawIsDrawCards ==
    [][\A c \in Conns :
          C32_Step(c) =>
              /\ CurrentHand'[c] = DrawCards(CurrentHand[c], CurrentDeck[c])[1]
              /\ CurrentDeck'[c] = DrawCards(CurrentHand[c], CurrentDeck[c])[2]]_vars

\* C40 for the ids of the cards alone, for a redraw that starts from a hand
\* of five cards
C40_SameCardsOfFive ==
    [][\A c \in Conns :
          (C32_Step(c) /\ Len(CurrentHand[c]) = 5) =>
              LET drawn == DrawCards(CurrentHand[c], CurrentDeck[c])
              IN /\ [i \in DOMAIN CurrentHand'[c] |-> CurrentHand'[c][i].ID]
                        = [i \in DOMAIN drawn[1] |-> drawn[1][i].ID]
                 /\ CurrentDeck'[c] = drawn[2]]_vars

TypeOK ==
    /\ Clients \subseteq Conns
    /\ DOMAIN Rooms \subseteq RoomArgs
    /\ \A r \in DOMAIN Rooms : Rooms[r] \subseteq Conns
    /\ \A c \in Conns : Len(Send[c]) <= SendCap
    /\ hubTodo \subseteq Conns

====
